---- MODULE Spec2Model ----
(***************************************************************************)
(* A model of the deploy-commander runner: one process materialises one    *)
(* job's manifest on a container engine (DockerPlatform.Run) and reports    *)
(* the produced resources to the control-plane agent.  The engine and the   *)
(* agent are shared state; every engine or agent call of the Go code is     *)
(* one atomic step of the calling process.                                  *)
(***************************************************************************)
EXTENDS Naturals, Sequences, FiniteSets, TLC

(***************************************************************************)
(* Bounds of the model.                                                     *)
(***************************************************************************)
\* sequential invocations of the runner explored for one job
MaxInvocations == 2
\* injected engine/agent failures (errors other than NotFound) per behaviour
MaxFaults == 1
\* largest exit status a runner container may report
MaxExit == 1

(***************************************************************************)
(* Strings.  Go's strings.TrimSpace, strings.ToLower and                    *)
(* strings.ReplaceAll(s, " ", "-"), computed character by character.        *)
(***************************************************************************)
Chr(s, i) == SubSeq(s, i, i)

RECURSIVE TrimLeft(_)
TrimLeft(s) ==
    IF Len(s) > 0 /\ Chr(s, 1) = " " THEN TrimLeft(SubSeq(s, 2, Len(s))) ELSE s

RECURSIVE TrimRight(_)
TrimRight(s) ==
    IF Len(s) > 0 /\ Chr(s, Len(s)) = " " THEN TrimRight(SubSeq(s, 1, Len(s) - 1)) ELSE s

TrimSpace(s) == TrimRight(TrimLeft(s))

LowerChr(c) ==
    LET UpperCase == <<"A", "B", "C", "D", "E", "F", "G", "H", "I", "J", "K", "L", "M",
                       "N", "O", "P", "Q", "R", "S", "T", "U", "V", "W", "X", "Y", "Z">>
        LowerCase == <<"a", "b", "c", "d", "e", "f", "g", "h", "i", "j", "k", "l", "m",
                       "n", "o", "p", "q", "r", "s", "t", "u", "v", "w", "x", "y", "z">>
    IN IF \E k \in DOMAIN UpperCase : UpperCase[k] = c
       THEN LowerCase[CHOOSE k \in DOMAIN UpperCase : UpperCase[k] = c]
       ELSE c

RECURSIVE ToLower(_)
ToLower(s) ==
    IF Len(s) = 0 THEN s ELSE LowerChr(Chr(s, 1)) \o ToLower(SubSeq(s, 2, Len(s)))

RECURSIVE ReplaceSpaces(_)
ReplaceSpaces(s) ==
    IF Len(s) = 0 THEN s
    ELSE (IF Chr(s, 1) = " " THEN "-" ELSE Chr(s, 1)) \o ReplaceSpaces(SubSeq(s, 2, Len(s)))

(***************************************************************************)
(* Naming.                                                                  *)
(***************************************************************************)
DockerServiceName(jobID, serviceKey) == jobID \o "-" \o TrimSpace(serviceKey)

DockerNetworkName(jobID, name) == jobID \o "-" \o name

DockerNetworkResourceName(jobID, name) == jobID \o "-" \o name \o "-resource"

DockerRunnerVolumeName(jobID) == jobID \o "-runner"

safe(s) == ReplaceSpaces(ToLower(TrimSpace(s)))

DockerVolumeName(jobID, volumeName) == "dc-" \o safe(jobID) \o "-" \o safe(volumeName)

(***************************************************************************)
(* Helpers on sequences and sets.                                           *)
(***************************************************************************)
Range(s) == {s[k] : k \in DOMAIN s}

RECURSIVE SetToSeqs(_)
\* every ordering of a finite set: the orders a Go map iteration may take
SetToSeqs(S) ==
    IF S = {} THEN {<<>>}
    ELSE UNION {{<<x>> \o t : t \in SetToSeqs(S \ {x})} : x \in S}

RECURSIVE Reverse(_)
Reverse(s) == IF s = <<>> THEN <<>> ELSE Reverse(Tail(s)) \o <<Head(s)>>

(***************************************************************************)
(* The manifest (models.Metadata).  A service is a record; absent optional  *)
(* lists are empty sequences, which every reader in the code treats alike.  *)
(***************************************************************************)
ServiceRoleRunner == "runner"
ServiceRoleService == "service"
ResourceConnectionTypePlatform == "Platform"
ResourceConnectionTypeNetwork == "Network"

\* a VolumeMount whose Name is nil (runner-provided volume)
ScratchMount(path) == [named |-> FALSE, name |-> "", mount_path |-> path]
NamedMount(name, path) == [named |-> TRUE, name |-> name, mount_path |-> path]
PlatformConn(net) == [type |-> ResourceConnectionTypePlatform, network |-> net]
NetworkConn == [type |-> ResourceConnectionTypeNetwork, network |-> ""]

\* a BindingSpec: container_port, host_port and host_ip, each <<>> for nil
\* or the value in a sequence of one
BindingSpec(containerPort, hostPort, hostIP) ==
    [container_port |-> containerPort, host_port |-> hostPort, host_ip |-> hostIP]

MetadataService(role, deps, groups, conns, res, vols) ==
    [role |-> role, depends_on |-> deps, network_groups |-> groups,
     connections |-> conns, resources |-> res, volumes |-> vols, bindings |-> <<>>]

\* a ResourceRef ("" for an absent id, service or name)
ResourceRef(id, service, name) == [id |-> id, service |-> service, name |-> name]
\* a CreateConnectionSpec: the job of the connection, the resource and the
\* metadata
CreateConnectionSpec(job, ref, metadata) ==
    [job |-> job, resource |-> ref, metadata |-> metadata]
\* a RemoveConnectionSpec: its id ("" for nil) and its resource (nil or a ref)
RemoveConnectionSpec(id, hasResource, ref) ==
    [id |-> id, hasResource |-> hasResource, resource |-> ref]
ConnectionPlan(create, remove) == [create |-> create, remove |-> remove]

Metadata(services, volumes, removeServices, removeVolumes) ==
    [services |-> services, volumes |-> volumes,
     remove_services |-> removeServices, remove_volumes |-> removeVolumes,
     connections |-> ConnectionPlan(<<>>, <<>>)]

IsRunnerRole(service) == service.role = ServiceRoleRunner

\* a reader that finds no platform data in any connection: the attachment
\* property C12 must not survive it
NoPlatformData(connection) == FALSE

GetPlatformData(connection) == connection.type = ResourceConnectionTypePlatform

\* the service keys of the model in the order sort.Strings gives them
SortedKeys == <<" a", "a", "b", "c", "z">>

RECURSIVE SortStrings(_, _)
SortStrings(S, k) ==
    IF k > Len(SortedKeys) THEN <<>>
    ELSE (IF SortedKeys[k] \in S THEN <<SortedKeys[k]>> ELSE <<>>) \o SortStrings(S, k + 1)

(***************************************************************************)
(* Errors: the kind of the failure and the names it reports.                *)
(***************************************************************************)
NoErr == [kind |-> "nil", at |-> <<>>]
Err(kind, at) == [kind |-> kind, at |-> at]
IsErr(e) == e.kind # "nil"

(***************************************************************************)
(* ManifestValidator.                                                       *)
(***************************************************************************)
RECURSIVE FirstMissingDep(_, _, _)
FirstMissingDep(services, keys, i) ==
    IF i > Len(keys) THEN NoErr
    ELSE LET svcKey == keys[i]
             deps == services[svcKey].depends_on
             bad == {k \in DOMAIN deps : deps[k] \notin DOMAIN services}
         IN IF bad = {} THEN FirstMissingDep(services, keys, i + 1)
            ELSE LET first == CHOOSE k \in bad : \A l \in bad : k <= l
                 IN Err("DependsOnMissing", <<svcKey, deps[first]>>)

CheckDependsOnServicesExist(services) ==
    FirstMissingDep(services, SortStrings(DOMAIN services, 1), 1)

unvisited == 0
visiting == 1
visited == 2

RECURSIVE WalkParents(_, _, _, _)
\* the loop of reconstructCycle: follow parent pointers until a node repeats
WalkParents(parent, cur, seen, path) ==
    IF cur \notin DOMAIN parent THEN path
    ELSE LET p == parent[cur]
         IN IF p \in seen THEN Append(path, p)
            ELSE WalkParents(parent, p, seen \cup {p}, Append(path, p))

reconstructCycle(parent, start) ==
    LET path == Reverse(WalkParents(parent, start, {start}, <<start>>))
    IN IF Len(path) > 0 /\ path[Len(path)] # path[1] THEN Append(path, path[1]) ELSE path

RECURSIVE CycleText(_, _)
\* the text of the error of a cycle: the nodes of the path from the i-th
\* on, each formatted with %q and joined by " -> "
CycleText(path, i) ==
    IF i > Len(path) THEN ""
    ELSE (IF i > 1 THEN " -> " ELSE "circular dependency detected: ")
         \o "\"" \o path[i] \o "\"" \o CycleText(path, i + 1)

RECURSIVE dfs(_, _, _)
RECURSIVE dfsDeps(_, _, _, _)
\* st = [state, parent, err]: the two maps of CheckCircularDependencies and
\* the error the closure returns
dfs(services, node, st) ==
    IF st.state[node] = visiting
    THEN [st EXCEPT !.err = Err("CycleDetected", reconstructCycle(st.parent, node))]
    ELSE IF st.state[node] = visited THEN st
    ELSE LET st2 == dfsDeps(services, node, 1, [st EXCEPT !.state[node] = visiting])
         IN IF IsErr(st2.err) THEN st2 ELSE [st2 EXCEPT !.state[node] = visited]

dfsDeps(services, node, i, st) ==
    LET deps == services[node].depends_on
    IN IF i > Len(deps) THEN st
       ELSE LET dep == deps[i]
            IN IF dep \notin DOMAIN services THEN dfsDeps(services, node, i + 1, st)
               ELSE LET st1 == IF dep \in DOMAIN st.parent THEN st
                               ELSE [st EXCEPT !.parent = (dep :> node) @@ @]
                        st2 == dfs(services, dep, st1)
                    IN IF IsErr(st2.err) THEN st2
                       ELSE dfsDeps(services, node, i + 1, st2)

RECURSIVE dfsAll(_, _, _, _)
dfsAll(services, order, i, st) ==
    IF i > Len(order) THEN st
    ELSE IF st.state[order[i]] = unvisited
         THEN LET st2 == dfs(services, order[i], st)
              IN IF IsErr(st2.err) THEN st2 ELSE dfsAll(services, order, i + 1, st2)
         ELSE dfsAll(services, order, i + 1, st)

\* a validator that reports no cycle at all: the rejection property C3 must
\* not survive it
CheckNoDependencies(services, order) == NoErr

\* a validator that takes every dependency for a cycle: the equivalence C25
\* must not survive it
CheckAnyDependency(services, order) ==
    IF \E k \in DOMAIN services : Len(services[k].depends_on) > 0
    THEN Err("CycleDetected", <<>>) ELSE NoErr

\* order: the order in which the range over the services map yields its keys
CheckCircularDependencies(services, order) ==
    dfsAll(services, order, 1,
           [state |-> [k \in DOMAIN services |-> unvisited],
            parent |-> <<>>, err |-> NoErr]).err

RECURSIVE DeclaredLoop(_, _, _)
DeclaredLoop(vols, i, set) ==
    IF i > Len(vols) THEN [set |-> set, err |-> NoErr]
    ELSE LET name == TrimSpace(vols[i])
         IN IF name = "" THEN [set |-> {}, err |-> Err("VolumeNameInvalid", <<>>)]
            ELSE IF name \in set
                 THEN [set |-> {}, err |-> Err("VolumeNameInvalid", <<name>>)]
                 ELSE DeclaredLoop(vols, i + 1, set \cup {name})

DeclaredVolumeSet(vols) == DeclaredLoop(vols, 1, {})

RECURSIVE MountLoop(_, _, _, _, _, _)
\* the inner loop of CheckServiceVolumeMounts over one service's mounts
MountLoop(svcKey, mounts, i, seenMountPath, declared, stragglers) ==
    IF i > Len(mounts) THEN [stragglers |-> stragglers, err |-> NoErr]
    ELSE LET m == mounts[i]
             mountPath == TrimSpace(m.mount_path)
         IN IF mountPath = ""
            THEN [stragglers |-> {}, err |-> Err("MountPathInvalid", <<svcKey>>)]
            ELSE IF Chr(mountPath, 1) # "/"
            THEN [stragglers |-> {}, err |-> Err("MountPathInvalid", <<svcKey, mountPath>>)]
            ELSE IF mountPath \in seenMountPath
            THEN [stragglers |-> {}, err |-> Err("DuplicateMountPath", <<svcKey, mountPath>>)]
            ELSE IF ~m.named
            THEN MountLoop(svcKey, mounts, i + 1, seenMountPath \cup {mountPath},
                           declared, stragglers)
            ELSE LET name == TrimSpace(m.name)
                 IN IF name = ""
                    THEN [stragglers |-> {}, err |-> Err("VolumeNameInvalid", <<svcKey>>)]
                    ELSE MountLoop(svcKey, mounts, i + 1, seenMountPath \cup {mountPath},
                                   declared,
                                   IF name \in declared THEN stragglers
                                   ELSE stragglers \cup {name})

RECURSIVE ServiceMountsLoop(_, _, _, _, _)
ServiceMountsLoop(services, order, i, declared, stragglers) ==
    IF i > Len(order) THEN [stragglers |-> stragglers, err |-> NoErr]
    ELSE LET r == MountLoop(order[i], services[order[i]].volumes, 1, {}, declared, stragglers)
         IN IF IsErr(r.err) THEN r
            ELSE ServiceMountsLoop(services, order, i + 1, declared, r.stragglers)

\* a mount check that collects no straggler: the straggler rule C11 must not
\* survive it
CheckNoMounts(services, declared, order) == [stragglers |-> {}, err |-> NoErr]

CheckServiceVolumeMounts(services, declared, order) ==
    ServiceMountsLoop(services, order, 1, declared, {})

(***************************************************************************)
(* State.                                                                   *)
(***************************************************************************)
VARIABLES
    metadata,      \* Configuration.Metadata, the same for every invocation
    volumes,       \* engine: named volumes [name, job, run, volume]
    networks,      \* engine: networks [id, name, job, run, kind]
    containers,    \* engine: containers
    agent,         \* agent: the resource records it holds [id, name]
    agentConns,    \* agent: the connection records it holds
    faults,        \* engine/agent failures injected so far
    comm,          \* p.comm != nil: the agent client was built from the environment
    proc           \* the runner processes: locals of Run and its callees

vars == <<metadata, volumes, networks, containers, agent, agentConns, faults, comm,
          proc>>

Procs == {1, 2}

Job == "j1"
OtherJob == "j2"
\* Configuration.Run of the k-th invocation
RunIds == <<"r1", "r2", "r3", "r4">>

\* a volume or network made outside the runner carries no runner labels
Unlabelled == ""

NoID == <<>>

InitProc ==
    [pc |-> "idle", inv |-> 0, conc |-> FALSE, action |-> "", run |-> "",
     err |-> NoErr,
     \* CheckVolumes
     stragglers |-> {},
     \* VolumeSetup, and every loop over a list
     i |-> 1,
     \* ServiceSetup
     services |-> {}, iter |-> {}, notRun |-> {}, ranServices |-> <<>>,
     createdNetworks |-> {},
     \* SetupService
     cur |-> "", networks |-> {}, resources |-> <<>>, resourceNames |-> {},
     pending |-> "", ret |-> "", containerID |-> NoID, statusCode |-> 0,
     \* Teardown and RemoveServices
     list |-> {}, names |-> {}, target |-> 0,
     \* history of the invocation
     calls |-> {}, begun |-> {}, created |-> {}, started |-> {}, removed |-> {},
     exited |-> {}, published |-> <<>>, observed |-> {}, mounted |-> {}, made |-> {},
     deleted |-> {}, connCalls |-> <<>>, platformInspected |-> {}, phases |-> <<>>,
     dropped |-> {}, volumeCalls |-> <<>>, networkCalls |-> <<>>, prior |-> <<>>,
     gone |-> {}, stopped |-> {},
     \* the runner wait: the log stream rc, the log task and the channel
     \* logDone
     rc |-> "", demux |-> "", logDoneCh |-> <<>>,
     \* the engine and the agent as the previous invocation left them
     prevOk |-> FALSE, prevNames |-> {}, prevAgent |-> {}, prevFaults |-> 0,
     prevLabels |-> {}, prevOthers |-> {}]

\* the fields a new invocation does not reset
Kept == {"inv", "conc", "prevOk", "prevNames", "prevAgent", "prevFaults", "prevLabels",
         "prevOthers"}

Fresh(old) == [f \in DOMAIN InitProc |-> IF f \in Kept THEN old[f] ELSE InitProc[f]]

\* the phase of Run's setup branch that a position belongs to: 1 CheckMetadata,
\* 2 VolumeSetup, 3 ServiceSetup, 4 RemoveServices, 5 RemoveVolumes,
\* 6 SetupConnections (0: no phase)
Phase(pc) ==
    IF pc \in {"idle", "done"} THEN 0
    ELSE IF pc \in {"CheckMetadata", "checkExistingDockerVolumes"} THEN 1
    ELSE IF pc \in {"VolumeSetup", "VolumeCreate", "VolumeReinspect"} THEN 2
    ELSE IF pc \in {"RemoveServices", "RemoveServicesStop", "RemoveServicesRemove",
                    "DeleteResourceByName"} THEN 4
    ELSE IF pc = "RemoveVolumes" THEN 5
    ELSE IF pc = "SetupConnections" THEN 6
    ELSE 3

\* process p takes one step: the fields of upd change; call names the
\* engine or agent call the step issues ("" for none)
Step(p, call, upd) ==
    LET old == proc[p]
        to == IF "pc" \in DOMAIN upd THEN upd.pc ELSE old.pc
        hist == [phases |-> IF old.action = "setup" /\ Phase(to) # 0
                               /\ Phase(to) # Phase(old.pc)
                            THEN Append(old.phases, Phase(to)) ELSE old.phases]
                @@ (IF call = "" THEN [calls |-> old.calls]
                    ELSE [calls |-> old.calls \cup {call},
                          begun |-> IF old.cur = "" THEN old.begun
                                    ELSE old.begun \cup {old.cur}])
        new == upd @@ hist @@ old
    IN proc' = [proc EXCEPT ![p] = new]

\* the ID the engine or the agent gives to what a call of p creates: unique,
\* as p creates an object of a given name at most once in an invocation
NewID(p, name) == <<proc[p].run, p, name>>

\* an error that does not end the invocation but takes it to the connection
\* plan: the phase order C13 must not survive it
FailOn(p, call, e) ==
    Step(p, call,
         [err |-> e] @@
         (IF comm /\ Len(metadata.connections.create) + Len(metadata.connections.remove) > 0
          THEN [pc |-> "SetupConnections", i |-> 1] ELSE [pc |-> "done"]))

\* the error return of every phase: Run returns it at once
Fail(p, call, e) == Step(p, call, [pc |-> "done", err |-> e])

\* the outcomes of a call: as the engine state dictates, or an injected
\* failure that is not a NotFound
Outcomes == IF faults < MaxFaults THEN {"ok", "fault"} ELSE {"ok"}
Inject(o) == faults' = IF o = "fault" THEN faults + 1 ELSE faults
EngineFault == Err("EngineError", <<>>)

VolumeNames == {v.name : v \in volumes}
NetworkNames == {n.name : n \in networks}
ArtifactNames ==
    {<<"volume", n>> : n \in VolumeNames} \cup {<<"network", n>> : n \in NetworkNames}
        \cup {<<"container", n>> : n \in {c.name : c \in containers}}

(***************************************************************************)
(* DockerPlatform.Run: an invocation begins.                                *)
(***************************************************************************)
\* Run's dispatch on config.Action, with the locals of a new invocation
Run(p, action, k) ==
    [Fresh(proc[p]) EXCEPT
        !.pc = IF action = "teardown" THEN "TearDownServices" ELSE "CheckMetadata",
        !.inv = k, !.action = action, !.run = RunIds[k],
        !.prevOk = proc[p].pc = "done" /\ proc[p].action = "setup" /\ ~IsErr(proc[p].err),
        !.phases = IF action = "teardown" THEN <<>> ELSE <<1>>,
        !.prevNames = ArtifactNames, !.prevAgent = agent, !.prevFaults = faults,
        !.prevLabels = UNION {c.resources : c \in {x \in containers : x.job = Job}},
        !.prevOthers = {x \in containers \cup volumes \cup networks : x.job # Job}]

\* p runs no invocation, and its last one (if any) succeeded
Rested(p) == IF proc[p].pc = "done" THEN ~IsErr(proc[p].err) ELSE proc[p].pc = "idle"

\* The runner is invoked once more for the job, after an invocation that
\* succeeded.
Start(p) ==
    /\ p = 1
    /\ proc[p].inv < MaxInvocations
    /\ Rested(p)
    /\ \E action \in {"setup", "teardown"} :
          proc' = [proc EXCEPT ![p] = Run(p, action, proc[p].inv + 1)]
    /\ UNCHANGED <<metadata, comm, agentConns, volumes, networks, containers, agent, faults>>

EnterServiceSetup ==
    [pc |-> "ServiceSetup", services |-> DOMAIN metadata.services,
     iter |-> DOMAIN metadata.services, notRun |-> {}, ranServices |-> <<>>,
     createdNetworks |-> {}]

EnterVolumeSetup ==
    IF Len(metadata.volumes) = 0 THEN EnterServiceSetup
    ELSE [pc |-> "VolumeSetup", i |-> 1]

\* CheckMetadata up to the first engine call of CheckVolumes
CheckMetadata(p) ==
    /\ proc[p].pc = "CheckMetadata"
    /\ UNCHANGED <<metadata, comm, agentConns, volumes, networks, containers, agent, faults>>
    /\ LET services == metadata.services
       IN IF DOMAIN services = {} THEN Step(p, "", EnterVolumeSetup)
          ELSE \E order1 \in SetToSeqs(DOMAIN services), order2 \in SetToSeqs(DOMAIN services) :
                 LET e1 == CheckDependsOnServicesExist(services)
                     e2 == CheckCircularDependencies(services, order1)
                     d == DeclaredVolumeSet(metadata.volumes)
                     m == CheckServiceVolumeMounts(services, d.set, order2)
                 IN IF IsErr(e1) THEN Fail(p, "", e1)
                    ELSE IF IsErr(e2) THEN Fail(p, "", e2)
                    ELSE IF IsErr(d.err) THEN Fail(p, "", d.err)
                    ELSE IF IsErr(m.err) THEN Fail(p, "", m.err)
                    ELSE IF m.stragglers = {} THEN Step(p, "", EnterVolumeSetup)
                    ELSE Step(p, "", [pc |-> "checkExistingDockerVolumes",
                                      stragglers |-> m.stragglers])

\* one iteration of checkExistingDockerVolumes: VolumeInspect of a straggler
checkExistingDockerVolumes(p) ==
    /\ proc[p].pc = "checkExistingDockerVolumes"
    /\ UNCHANGED <<metadata, comm, agentConns, volumes, networks, containers, agent>>
    /\ \E logicalName \in proc[p].stragglers, o \in Outcomes :
          LET volName == DockerVolumeName(Job, logicalName)
              rest == proc[p].stragglers \ {logicalName}
          IN /\ Inject(o)
             /\ IF o = "fault" THEN Fail(p, "VolumeInspect", EngineFault)
                ELSE IF volName \notin VolumeNames
                THEN Fail(p, "VolumeInspect", Err("NotFound", <<volName>>))
                ELSE Step(p, "VolumeInspect",
                          [stragglers |-> rest, observed |-> proc[p].observed \cup {volName}]
                              @@ (IF rest = {} THEN EnterVolumeSetup
                                  ELSE [pc |-> "checkExistingDockerVolumes"]))

(***************************************************************************)
(* VolumeSetup.                                                             *)
(***************************************************************************)
NextVolume(p) ==
    IF proc[p].i + 1 > Len(metadata.volumes) THEN EnterServiceSetup
    ELSE [pc |-> "VolumeSetup", i |-> proc[p].i + 1]

\* the labels VolumeSetup gives a volume it creates
VolumeLabels(p) ==
    [job |-> Job, run |-> proc[p].run, volume |-> metadata.volumes[proc[p].i]]

\* the calls of VolumeSetup so far and one more: the call, the name and the
\* labels it is given, and its result
Called(p, call, name, result) ==
    Append(proc[p].volumeCalls,
           [call |-> call, name |-> name, result |-> result,
            labels |-> IF call = "VolumeCreate" THEN VolumeLabels(p) ELSE <<>>])

\* the first VolumeInspect of the loop body
VolumeSetup(p) ==
    /\ proc[p].pc = "VolumeSetup"
    /\ UNCHANGED <<metadata, comm, agentConns, volumes, networks, containers, agent>>
    /\ \E o \in Outcomes :
          LET name == DockerVolumeName(Job, metadata.volumes[proc[p].i])
          IN /\ Inject(o)
             /\ IF o = "fault"
                THEN Step(p, "VolumeInspect",
                          [pc |-> "done",
                           err |-> Err("VolumeOperationFailed", <<"inspect", name>>),
                           volumeCalls |-> Called(p, "VolumeInspect", name, "error")])
                ELSE IF name \in VolumeNames
                THEN Step(p, "VolumeInspect",
                          [observed |-> proc[p].observed \cup {name},
                           volumeCalls |-> Called(p, "VolumeInspect", name, "present")]
                              @@ NextVolume(p))
                ELSE Step(p, "VolumeInspect",
                          [pc |-> "VolumeCreate",
                           volumeCalls |-> Called(p, "VolumeInspect", name, "NotFound")])

\* VolumeCreate; the engine answers a name it already holds with the
\* existing volume or with a conflict
VolumeCreate(p) ==
    /\ proc[p].pc = "VolumeCreate"
    /\ UNCHANGED <<metadata, comm, agentConns, networks, containers, agent>>
    /\ LET name == DockerVolumeName(Job, metadata.volumes[proc[p].i])
       IN \E o \in Outcomes \cup (IF name \in VolumeNames THEN {"conflict"} ELSE {}) :
             /\ Inject(o)
             /\ IF o = "ok"
                THEN /\ volumes' = IF name \in VolumeNames THEN volumes
                                   ELSE volumes \cup {[name |-> name] @@ VolumeLabels(p)}
                     /\ Step(p, "VolumeCreate",
                             [observed |-> proc[p].observed \cup {name},
                              made |-> IF name \in VolumeNames THEN proc[p].made
                                       ELSE proc[p].made \cup {<<"volume", name>>},
                              volumeCalls |-> Called(p, "VolumeCreate", name, "ok")]
                                 @@ NextVolume(p))
                ELSE /\ UNCHANGED volumes
                     /\ Step(p, "VolumeCreate",
                             [pc |-> "VolumeReinspect",
                              volumeCalls |-> Called(p, "VolumeCreate", name, "error")])

\* a failed create that is not followed by a second look: the race safety
\* C9 must not survive it
VolumeCreateFailed(p) ==
    /\ proc[p].pc = "VolumeReinspect"
    /\ UNCHANGED <<metadata, comm, agentConns, volumes, networks, containers, agent, faults>>
    /\ Fail(p, "", Err("VolumeOperationFailed",
                       <<"create", DockerVolumeName(Job, metadata.volumes[proc[p].i])>>))

\* the VolumeInspect after a failed create
VolumeReinspect(p) ==
    /\ proc[p].pc = "VolumeReinspect"
    /\ UNCHANGED <<metadata, comm, agentConns, volumes, networks, containers, agent>>
    /\ \E o \in Outcomes :
          LET name == DockerVolumeName(Job, metadata.volumes[proc[p].i])
          IN /\ Inject(o)
             /\ IF o = "ok" /\ name \in VolumeNames
                THEN Step(p, "VolumeInspect",
                          [observed |-> proc[p].observed \cup {name},
                           volumeCalls |-> Called(p, "VolumeInspect", name, "present")]
                              @@ NextVolume(p))
                ELSE Step(p, "VolumeInspect",
                          [pc |-> "done",
                           err |-> Err("VolumeOperationFailed", <<"create", name>>),
                           volumeCalls |->
                               Called(p, "VolumeInspect", name,
                                      IF o = "ok" THEN "NotFound" ELSE "error")])

(***************************************************************************)
(* ServiceSetup: the dependency scheduler.                                  *)
(***************************************************************************)
\* a dependency test that is satisfied by any one depends_on entry: the
\* ordering property C1 must not survive it
CanRunAfterAny(service, ranServices) ==
    \/ Len(service.depends_on) = 0
    \/ \E k \in DOMAIN service.depends_on : service.depends_on[k] \in Range(ranServices)

\* the dependency test of the inner loop: every depends_on entry has run
CanRun(service, ranServices) ==
    \A k \in DOMAIN service.depends_on : service.depends_on[k] \in Range(ranServices)

\* the loops of SetupService over the service's lists; an empty list takes
\* no step
EnterResources(service) ==
    IF Len(service.resources) = 0 THEN [pc |-> "DefaultNetwork"]
    ELSE [pc |-> "Resources", i |-> 1]

EnterConnections(service) ==
    IF Len(service.connections) = 0 THEN EnterResources(service)
    ELSE [pc |-> "Connections", i |-> 1]

EnterGroups(service) ==
    IF Len(service.network_groups) = 0 THEN EnterConnections(service)
    ELSE [pc |-> "NetworkGroups", i |-> 1]

\* the phases of Run after ServiceSetup; an empty list takes no step
EnterSetupConnections ==
    IF comm /\ Len(metadata.connections.create) + Len(metadata.connections.remove) > 0
    THEN [pc |-> "SetupConnections", i |-> 1]
    ELSE [pc |-> "done"]

EnterRemoveVolumes ==
    IF Len(metadata.remove_volumes) = 0 THEN EnterSetupConnections
    ELSE [pc |-> "RemoveVolumes", i |-> 1]

EnterRemoveServices ==
    IF Len(metadata.remove_services) = 0 THEN [cur |-> ""] @@ EnterRemoveVolumes
    ELSE [pc |-> "RemoveServices", i |-> 1, resourceNames |-> {}, cur |-> ""]

\* one iteration of the range over services, or the end of a pass
ServiceSetup(p) ==
    /\ proc[p].pc = "ServiceSetup"
    /\ UNCHANGED <<metadata, comm, agentConns, volumes, networks, containers, agent, faults>>
    /\ IF proc[p].iter = {}
       THEN IF proc[p].notRun = {} THEN Step(p, "", EnterRemoveServices)
            ELSE Step(p, "", [services |-> proc[p].notRun, iter |-> proc[p].notRun,
                              notRun |-> {}])
       ELSE \E name \in proc[p].iter :
               IF CanRun(metadata.services[name], proc[p].ranServices)
               THEN Step(p, "", EnterGroups(metadata.services[name])
                                    @@ [cur |-> name, iter |-> proc[p].iter \ {name},
                                        networks |-> {}, resources |-> <<>>,
                                        resourceNames |-> {}, prior |-> <<>>,
                                        containerID |-> NoID,
                                        statusCode |-> 0])
               ELSE Step(p, "", [iter |-> proc[p].iter \ {name},
                                 notRun |-> proc[p].notRun \cup {name}])

(***************************************************************************)
(* SetupService: the networks of the service.                               *)
(***************************************************************************)
Service(p) == metadata.services[proc[p].cur]

\* the network calls of SetupService so far and one more: the call, the name
\* it is given, its result, and whether an ensure-network block issued it
\* (the inspect of a Platform connection is the call that no such block
\* issues)
NetCalled(p, call, name, result, ensure) ==
    Append(proc[p].networkCalls,
           [call |-> call, name |-> name, result |-> result, ensure |-> ensure])

\* an inspect that finds the network and does not put it in createdNetworks:
\* the bookkeeping property C28 must not survive it
NetworkInspectUnrecorded(p) ==
    /\ proc[p].pc = "NetworkInspect"
    /\ UNCHANGED <<metadata, comm, agentConns, volumes, networks, containers, agent>>
    /\ \E o \in Outcomes :
          /\ Inject(o)
          /\ Step(p, "NetworkInspect",
                  [pc |-> IF o = "ok" /\ proc[p].pending \in NetworkNames
                          THEN proc[p].ret ELSE "NetworkCreate",
                   networkCalls |->
                       NetCalled(p, "NetworkInspect", proc[p].pending,
                                 IF o = "ok" /\ proc[p].pending \in NetworkNames
                                 THEN "present" ELSE "error", TRUE)])

\* first NetworkInspect of an ensure-network block; any error leads to create
NetworkInspect(p) ==
    /\ proc[p].pc = "NetworkInspect"
    /\ UNCHANGED <<metadata, comm, agentConns, volumes, networks, containers, agent>>
    /\ \E o \in Outcomes :
          /\ Inject(o)
          /\ IF o = "ok" /\ proc[p].pending \in NetworkNames
             THEN Step(p, "NetworkInspect",
                       [pc |-> proc[p].ret,
                        createdNetworks |-> proc[p].createdNetworks \cup {proc[p].pending},
                        networkCalls |->
                            NetCalled(p, "NetworkInspect", proc[p].pending, "present", TRUE)])
             ELSE Step(p, "NetworkInspect",
                       [pc |-> "NetworkCreate",
                        networkCalls |->
                            NetCalled(p, "NetworkInspect", proc[p].pending, "error", TRUE)])

\* the labels of the three NetworkCreate calls
NetworkLabels(p) ==
    [job |-> Job, run |-> proc[p].run,
     kind |-> IF proc[p].ret = "NetworkGroups" THEN "group"
              ELSE IF proc[p].ret = "Resources" THEN "resource" ELSE ""]

\* NetworkCreate; the engine refuses a name it already holds
NetworkCreate(p) ==
    /\ proc[p].pc = "NetworkCreate"
    /\ UNCHANGED <<metadata, comm, agentConns, volumes, containers, agent>>
    /\ \E o \in Outcomes :
          /\ Inject(o)
          /\ IF o = "ok" /\ proc[p].pending \notin NetworkNames
             THEN /\ networks' = networks \cup
                        {[id |-> NewID(p, proc[p].pending), name |-> proc[p].pending]
                             @@ NetworkLabels(p)}
                  /\ Step(p, "NetworkCreate",
                          [pc |-> proc[p].ret,
                           createdNetworks |-> proc[p].createdNetworks \cup {proc[p].pending},
                           made |-> proc[p].made \cup {<<"network", proc[p].pending>>},
                           networkCalls |->
                               NetCalled(p, "NetworkCreate", proc[p].pending, "ok", TRUE)])
             ELSE /\ UNCHANGED networks
                  /\ Step(p, "NetworkCreate",
                          [pc |-> "NetworkReinspect",
                           networkCalls |->
                               NetCalled(p, "NetworkCreate", proc[p].pending, "error",
                                         TRUE)])

\* the NetworkInspect after a failed create
NetworkReinspect(p) ==
    /\ proc[p].pc = "NetworkReinspect"
    /\ UNCHANGED <<metadata, comm, agentConns, volumes, networks, containers, agent>>
    /\ \E o \in Outcomes :
          /\ Inject(o)
          /\ IF o = "ok" /\ proc[p].pending \in NetworkNames
             THEN Step(p, "NetworkInspect",
                       [pc |-> proc[p].ret,
                        createdNetworks |-> proc[p].createdNetworks \cup {proc[p].pending},
                        networkCalls |->
                            NetCalled(p, "NetworkInspect", proc[p].pending, "present", TRUE)])
             ELSE Fail(p, "NetworkInspect",
                       Err("NetworkOperationFailed", <<"create", proc[p].pending>>))

\* an ensure-network block that creates without looking first: the
\* idempotence property C7 must not survive it
EnsureByCreate(netName, ret) == [pc |-> "NetworkCreate", pending |-> netName, ret |-> ret]

\* the ensure-network block of steps 1 and 3: inspect, then create
Ensure(netName, ret) == [pc |-> "NetworkInspect", pending |-> netName, ret |-> ret]

\* one iteration of the loop over service.NetworkGroups
NetworkGroups(p) ==
    /\ proc[p].pc = "NetworkGroups"
    /\ UNCHANGED <<metadata, comm, agentConns, volumes, networks, containers, agent, faults>>
    /\ LET groups == Service(p).network_groups
           netName == DockerNetworkName(Job, groups[proc[p].i])
       IN IF netName \in proc[p].createdNetworks
          THEN Step(p, "", [networks |-> proc[p].networks \cup {netName}]
                               @@ (IF proc[p].i + 1 > Len(groups)
                                   THEN EnterConnections(Service(p))
                                   ELSE [i |-> proc[p].i + 1]))
          ELSE Step(p, "", Ensure(netName, "NetworkGroups"))

\* one iteration of the loop over service.Connections
Connections(p) ==
    /\ proc[p].pc = "Connections"
    /\ UNCHANGED <<metadata, comm, agentConns, volumes, networks, containers, agent>>
    /\ LET conns == Service(p).connections
           conn == conns[proc[p].i]
           netName == conn.network
           next == IF proc[p].i + 1 > Len(conns) THEN EnterResources(Service(p))
                   ELSE [i |-> proc[p].i + 1]
       IN IF ~GetPlatformData(conn) THEN UNCHANGED faults /\ Step(p, "", next)
          ELSE IF netName = ""
          THEN UNCHANGED faults
               /\ Fail(p, "", Err("PlatformConnectionInvalid", <<proc[p].cur>>))
          ELSE \E o \in Outcomes :
                  /\ Inject(o)
                  /\ IF o = "ok" /\ netName \in NetworkNames
                     THEN Step(p, "NetworkInspect",
                               [networks |-> proc[p].networks \cup {netName},
                                platformInspected |->
                                    proc[p].platformInspected \cup {netName},
                                networkCalls |->
                                    NetCalled(p, "NetworkInspect", netName, "present",
                                              FALSE)] @@ next)
                     ELSE Step(p, "NetworkInspect",
                               [pc |-> "done",
                                err |-> Err("PlatformNetworkMissing", <<netName>>),
                                platformInspected |->
                                    proc[p].platformInspected \cup {netName},
                                networkCalls |->
                                    NetCalled(p, "NetworkInspect", netName, "error",
                                              FALSE)])

\* a models.CreateResource: its name and its platform_connection network
\* ("" for nil)
\* a record that never carries a platform_connection: the publication
\* property C30 must not survive it
CreateResourceRecordBare(name, network) == [name |-> name, network |-> ""]

CreateResourceRecord(name, network) == [name |-> name, network |-> network]

\* one iteration of the loop over service.Resources
Resources(p) ==
    /\ proc[p].pc = "Resources"
    /\ UNCHANGED <<metadata, comm, agentConns, volumes, networks, containers, agent, faults>>
    /\ LET specs == Service(p).resources
           name == specs[proc[p].i]
           netName == DockerNetworkResourceName(Job, name)
           next == IF proc[p].i + 1 > Len(specs) THEN [pc |-> "DefaultNetwork"]
                   ELSE [i |-> proc[p].i + 1]
       IN IF IsRunnerRole(Service(p))
          THEN Step(p, "", [resources |-> Append(proc[p].resources,
                                                 CreateResourceRecord(name, ""))] @@ next)
          ELSE IF netName \in proc[p].createdNetworks
          THEN Step(p, "", [resources |-> Append(proc[p].resources,
                                                 CreateResourceRecord(name, netName)),
                            resourceNames |-> proc[p].resourceNames \cup {name},
                            networks |-> proc[p].networks \cup {netName}] @@ next)
          ELSE Step(p, "", Ensure(netName, "Resources"))

\* the source of each mount of the service, as step 4 computes it
MountSources(service) ==
    {IF service.volumes[k].named THEN DockerVolumeName(Job, service.volumes[k].name)
     ELSE DockerRunnerVolumeName(Job) : k \in DOMAIN service.volumes}

\* strconv.Itoa
RECURSIVE Itoa(_)
Itoa(n) ==
    IF n < 0 THEN "-" \o Itoa(0 - n)
    ELSE IF n < 10 THEN Chr("0123456789", n + 1)
    ELSE Itoa(n \div 10) \o Chr("0123456789", (n % 10) + 1)

\* netip.ParseAddr of a dotted quad, field by field: four fields of digits,
\* none empty, none above 255, none with a leading zero (addresses with a
\* colon are not among the inputs explored); TRUE when the address parses
RECURSIVE ParseAddr(_, _, _, _, _)
ParseAddr(s, i, pos, val, digLen) ==
    IF i > Len(s) THEN pos = 3 /\ digLen > 0
    ELSE IF Chr(s, i) = "."
    THEN digLen > 0 /\ pos < 3 /\ ParseAddr(s, i + 1, pos + 1, 0, 0)
    ELSE /\ \E d \in 0..9 : Chr("0123456789", d + 1) = Chr(s, i)
         /\ LET d == CHOOSE d \in 0..9 : Chr("0123456789", d + 1) = Chr(s, i)
            IN /\ ~(digLen = 1 /\ val = 0)
               /\ val * 10 + d <= 255
               /\ ParseAddr(s, i + 1, pos, val * 10 + d, digLen + 1)

\* step 5: the exposed ports and the host bindings of the service, binding
\* by binding; the container port goes through uint16(containerPort), the
\* host port through strconv.Itoa, and the first host_ip that does not parse
\* ends the reconcile
RECURSIVE PortBindings(_, _, _, _)
PortBindings(service, i, exposed, portMap) ==
    IF i > Len(service.bindings)
    THEN [exposed |-> exposed, portMap |-> portMap, err |-> NoErr]
    ELSE LET b == service.bindings[i]
         IN IF b.container_port = <<>>
            THEN PortBindings(service, i + 1, exposed, portMap)
            ELSE LET port == b.container_port[1] % 65536
                     hostIP == IF b.host_ip = <<>> THEN "0.0.0.0" ELSE b.host_ip[1]
                 IN IF b.host_port = <<>>
                    THEN PortBindings(service, i + 1,
                                      exposed \cup {<<port, "tcp">>, <<port, "udp">>},
                                      portMap)
                    ELSE IF ~ParseAddr(hostIP, 1, 0, 0, 0)
                    THEN [exposed |-> exposed \cup {<<port, "tcp">>},
                          portMap |-> portMap,
                          err |-> Err("InvalidHostIP", <<hostIP>>)]
                    ELSE PortBindings(service, i + 1,
                             exposed \cup {<<port, "tcp">>, <<port, "udp">>},
                             portMap \cup {[port |-> <<port, t>>, host_ip |-> hostIP,
                                            host_port |-> Itoa(b.host_port[1])] :
                                               t \in {"tcp", "udp"}})

\* steps 2 to 5 without their checks: the frame property C37 must not
\* survive it
BuildSpecUnchecked(p) == [pc |-> "ContainerInspect"]

\* steps 2 to 5: container name, env, mounts and port bindings
BuildSpec(p) ==
    IF \E k \in DOMAIN Service(p).volumes : TrimSpace(Service(p).volumes[k].mount_path) = ""
    THEN [pc |-> "done", err |-> Err("MountPathInvalid", <<proc[p].cur>>)]
    ELSE IF IsErr(PortBindings(Service(p), 1, {}, {}).err)
    THEN [pc |-> "done", err |-> PortBindings(Service(p), 1, {}, {}).err]
    ELSE [pc |-> "ContainerInspect"]

\* a reconcile that joins the default network whatever else the service has
\* joined: the attachment rule C29 must not survive it
DefaultNetworkAlways(p) ==
    /\ proc[p].pc = "DefaultNetwork"
    /\ UNCHANGED <<metadata, comm, agentConns, volumes, networks, containers, agent, faults>>
    /\ IF Job \in proc[p].createdNetworks
       THEN Step(p, "", [networks |-> proc[p].networks \cup {Job}] @@ BuildSpec(p))
       ELSE Step(p, "", Ensure(Job, "DefaultNetwork"))

\* the default network of the job, when the service joined no other
DefaultNetwork(p) ==
    /\ proc[p].pc = "DefaultNetwork"
    /\ UNCHANGED <<metadata, comm, agentConns, volumes, networks, containers, agent, faults>>
    /\ IF proc[p].networks # {} THEN Step(p, "", BuildSpec(p))
       ELSE IF Job \in proc[p].createdNetworks
       THEN Step(p, "", [networks |-> {Job}] @@ BuildSpec(p))
       ELSE Step(p, "", Ensure(Job, "DefaultNetwork"))

(***************************************************************************)
(* SetupService: the container.                                             *)
(***************************************************************************)
ContainerName(p) == DockerServiceName(Job, proc[p].cur)

ByName(name) == {c \in containers : c.name = name}
ByID(id) == {c \in containers : c.id = id}

\* the value of the label deploy-commander.resources is the set of the
\* strings of the JSON array it holds, {} for an absent or empty label;
\* Malformed is a label whose text json.Unmarshal rejects
Malformed == {"{"}

\* a reader that takes the label as it is: the label property C31 must not
\* survive it
LabelNamesRaw(label) == label

\* the names a label contributes: nothing when it is malformed, and never
\* the empty name
LabelNames(label) == IF label = Malformed THEN {} ELSE label \ {""}

\* ContainerStop as the engine performs it: a running container exits
Stopped(cs) ==
    (containers \ cs) \cup
        {IF c.status = "running" THEN [c EXCEPT !.status = "exited", !.exit = 1] ELSE c
            : c \in cs}

\* step 6: ContainerInspect by name; prior resource names are kept
ContainerInspect(p) ==
    /\ proc[p].pc = "ContainerInspect"
    /\ UNCHANGED <<metadata, comm, agentConns, volumes, networks, containers, agent>>
    /\ \E o \in Outcomes :
          /\ Inject(o)
          /\ IF o = "ok" /\ ByName(ContainerName(p)) # {}
             THEN Step(p, "ContainerInspect",
                       [pc |-> "ContainerStop",
                        prior |-> <<UNION {c.resources : c \in ByName(ContainerName(p))}>>,
                        resourceNames |-> proc[p].resourceNames \cup
                            UNION {LabelNames(c.resources) :
                                      c \in ByName(ContainerName(p))}])
             ELSE Step(p, "ContainerInspect", [pc |-> "ContainerCreate"])

\* ContainerStop of the existing container; its error is dropped
ContainerStop(p) ==
    /\ proc[p].pc = "ContainerStop"
    /\ UNCHANGED <<metadata, comm, agentConns, volumes, networks, agent>>
    /\ \E o \in Outcomes :
          /\ Inject(o)
          /\ containers' = IF o = "ok" THEN Stopped(ByName(ContainerName(p))) ELSE containers
          /\ Step(p, "ContainerStop", [pc |-> "ContainerRemove",
                                       stopped |-> proc[p].stopped \cup {proc[p].cur}])

\* ContainerRemove of the existing container; every error is fatal
ContainerRemove(p) ==
    /\ proc[p].pc = "ContainerRemove"
    /\ UNCHANGED <<metadata, comm, agentConns, volumes, networks, agent>>
    /\ \E o \in Outcomes :
          /\ Inject(o)
          /\ IF o = "ok" /\ ByName(ContainerName(p)) # {}
             THEN /\ containers' = containers \ ByName(ContainerName(p))
                  /\ Step(p, "ContainerRemove",
                          [pc |-> "ContainerCreate",
                           removed |-> proc[p].removed \cup {proc[p].cur}])
             ELSE /\ UNCHANGED containers
                  /\ Fail(p, "ContainerRemove",
                          Err("ContainerOperationFailed", <<"remove", ContainerName(p)>>))

\* step 7: the labels of the new container
ContainerLabels(p) ==
    [job |-> Job, run |-> proc[p].run, service |-> proc[p].cur,
     resources |-> proc[p].resourceNames]

\* the engine makes a volume that a mount names and that does not exist;
\* such a volume carries no labels
ImplicitVolumes(sources) ==
    {[name |-> n, job |-> Unlabelled, run |-> Unlabelled, volume |-> Unlabelled] :
        n \in sources \ VolumeNames}

\* steps 8 and 9: ContainerCreate under the service's name
ContainerCreate(p) ==
    /\ proc[p].pc = "ContainerCreate"
    /\ UNCHANGED <<metadata, comm, agentConns, networks, agent>>
    /\ \E o \in Outcomes :
          LET name == ContainerName(p)
              sources == MountSources(Service(p))
              mounted == proc[p].mounted \cup sources
          IN /\ Inject(o)
             /\ IF o = "ok" /\ ByName(name) = {}
                THEN /\ containers' = containers \cup
                           {[id |-> NewID(p, name), name |-> name, status |-> "created",
                             exit |-> 0, mounts |-> sources,
                             networks |-> proc[p].networks,
                             exposed |-> PortBindings(Service(p), 1, {}, {}).exposed,
                             portMap |-> PortBindings(Service(p), 1, {}, {}).portMap]
                                @@ ContainerLabels(p)}
                     /\ volumes' = volumes \cup ImplicitVolumes(sources)
                     /\ Step(p, "ContainerCreate",
                             [pc |-> "ContainerStart", containerID |-> NewID(p, name),
                              mounted |-> mounted,
                              created |-> proc[p].created \cup {proc[p].cur},
                              made |-> proc[p].made \cup {<<"container", name>>}
                                  \cup {<<"volume", n>> : n \in sources \ VolumeNames}])
                ELSE /\ UNCHANGED <<containers, volumes>>
                     /\ Step(p, "ContainerCreate",
                             [pc |-> "ContainerReinspect", mounted |-> mounted])

\* the ContainerInspect after a failed create: the twin's ID is taken
ContainerReinspect(p) ==
    /\ proc[p].pc = "ContainerReinspect"
    /\ UNCHANGED <<metadata, comm, agentConns, volumes, networks, containers, agent>>
    /\ \E o \in Outcomes :
          /\ Inject(o)
          /\ IF o = "ok" /\ ByName(ContainerName(p)) # {}
             THEN \E c \in ByName(ContainerName(p)) :
                     Step(p, "ContainerInspect",
                          [pc |-> "ContainerStart", containerID |-> c.id])
             ELSE Fail(p, "ContainerInspect",
                       Err("ContainerOperationFailed", <<"create", ContainerName(p)>>))

\* a return of SetupService that ServiceSetup does not record in
\* ranServices: the scheduling property C20 must not survive it
ReturnUnrecorded(p) == [pc |-> "ServiceSetup", cur |-> ""]

\* what follows the start of the container: step 10 for a runner, else
\* step 11, which returns at once when there is nothing to publish
ReturnOk(p) ==
    [pc |-> "ServiceSetup", ranServices |-> Append(proc[p].ranServices, proc[p].cur),
     cur |-> ""]

EnterPublish(p) ==
    IF comm /\ Len(proc[p].resources) > 0 THEN [pc |-> "CreateResource", i |-> 1]
    ELSE ReturnOk(p)

\* ContainerStart by ID
ContainerStart(p) ==
    /\ proc[p].pc = "ContainerStart"
    /\ UNCHANGED <<metadata, comm, agentConns, volumes, networks, agent>>
    /\ \E o \in Outcomes :
          /\ Inject(o)
          /\ IF o = "ok" /\ ByID(proc[p].containerID) # {}
             THEN /\ containers' = (containers \ ByID(proc[p].containerID)) \cup
                        {[c EXCEPT !.status = "running"] : c \in ByID(proc[p].containerID)}
                  /\ Step(p, "ContainerStart",
                          [started |-> proc[p].started \cup {proc[p].cur}]
                              @@ (IF IsRunnerRole(Service(p)) THEN [pc |-> "ContainerLogs"]
                                  ELSE EnterPublish(p)))
             ELSE /\ UNCHANGED containers
                  /\ Fail(p, "ContainerStart",
                          Err("ContainerOperationFailed", <<"start", ContainerName(p)>>))

\* step 10: ContainerLogs of the runner container; on success the stream is
\* open, logDone is made and the log task is spawned
ContainerLogs(p) ==
    /\ proc[p].pc = "ContainerLogs"
    /\ UNCHANGED <<metadata, comm, agentConns, volumes, networks, containers, agent>>
    /\ \E o \in Outcomes :
          /\ Inject(o)
          /\ IF o = "ok" /\ ByID(proc[p].containerID) # {}
             THEN Step(p, "ContainerLogs",
                       [pc |-> "ContainerWait", rc |-> "open", demux |-> "reading",
                        logDoneCh |-> <<>>])
             ELSE Fail(p, "ContainerLogs", Err("LogStreamFailed", <<ContainerName(p)>>))

\* the capacity of make(chan error, 1)
logDoneCap == 1

\* a log task on a channel without a buffer, whose send waits for the main
\* task to receive: the completion property C33 must not survive it
DemuxDockerLogsUnbuffered(p) ==
    /\ proc[p].demux = "reading"
    /\ proc[p].pc = "logDone"
    /\ UNCHANGED <<metadata, comm, agentConns, volumes, networks, containers, agent, faults>>
    /\ Step(p, "", [demux |-> "ended", logDoneCh |-> <<"nil">>])

\* the log task, logDone <- DemuxDockerLogs(os.Stdout, os.Stderr, rc):
\* DemuxDockerLogs returns nil when the engine ends the followed stream,
\* which it does when the container is no longer running, and an error when
\* a read fails, as every read of a closed stream does; the send waits while
\* the buffer is full, and then the task ends
DemuxDockerLogs(p) ==
    /\ proc[p].demux = "reading"
    /\ Len(proc[p].logDoneCh) < logDoneCap
    /\ UNCHANGED <<metadata, comm, agentConns, volumes, networks, containers, agent>>
    /\ \E o \in Outcomes :
          /\ Inject(o)
          /\ \E e \in (IF o = "fault" \/ proc[p].rc = "closed" THEN {"error"} ELSE {})
                     \cup (IF o = "ok" /\ \A c \in ByID(proc[p].containerID) :
                                             c.status # "running"
                           THEN {"nil"} ELSE {}) :
                Step(p, "", [demux |-> "ended",
                             logDoneCh |-> Append(proc[p].logDoneCh, e)])

\* the exit statuses a runner container may end with
ExitCodes == 0..MaxExit

\* ContainerWait and the select on its two channels
ContainerWait(p) ==
    /\ proc[p].pc = "ContainerWait"
    /\ UNCHANGED <<metadata, comm, agentConns, volumes, networks, agent>>
    /\ \E o \in Outcomes :
          /\ Inject(o)
          /\ IF o = "ok" /\ ByID(proc[p].containerID) # {}
             THEN \E c \in ByID(proc[p].containerID) :
                  \E code \in IF c.status = "exited" THEN {c.exit} ELSE ExitCodes :
                     /\ containers' = (containers \ {c}) \cup
                           {[c EXCEPT !.status = "exited", !.exit = code]}
                     /\ Step(p, "ContainerWait",
                             [pc |-> "logDone", statusCode |-> code,
                              exited |-> proc[p].exited \cup {<<proc[p].cur, code>>}])
             ELSE /\ UNCHANGED containers
                  /\ Step(p, "ContainerWait",
                          [pc |-> "done", rc |-> "closed",
                           err |-> Err("ContainerOperationFailed",
                                       <<"wait", ContainerName(p)>>)])

\* the receive from logDone: it waits for the log task's result; an error
\* returns, and the deferred rc.Close() runs
logDone(p) ==
    /\ proc[p].pc = "logDone"
    /\ Len(proc[p].logDoneCh) > 0
    /\ UNCHANGED <<metadata, comm, agentConns, volumes, networks, containers, agent, faults>>
    /\ IF Head(proc[p].logDoneCh) = "nil"
       THEN Step(p, "", [pc |-> "RunnerRemove", logDoneCh |-> Tail(proc[p].logDoneCh)])
       ELSE Step(p, "", [pc |-> "done", rc |-> "closed",
                        logDoneCh |-> Tail(proc[p].logDoneCh),
                        err |-> Err("LogStreamFailed", <<ContainerName(p)>>)])

\* a status test that lets every exit status pass: the gating property C2
\* must not survive it
RunnerNeverFailed(statusCode) == FALSE

\* the test of the runner's exit status
RunnerFailed(statusCode) == statusCode # 0

\* ContainerRemove of the finished runner, then the test of its status; the
\* deferred rc.Close() runs when SetupService returns, after a log task that
\* has ended, and is taken here
RunnerRemove(p) ==
    /\ proc[p].pc = "RunnerRemove"
    /\ UNCHANGED <<metadata, comm, agentConns, volumes, networks, agent>>
    /\ \E o \in Outcomes :
          /\ Inject(o)
          /\ IF o = "ok" /\ ByID(proc[p].containerID) # {}
             THEN /\ containers' = containers \ ByID(proc[p].containerID)
                  /\ IF RunnerFailed(proc[p].statusCode)
                     THEN Step(p, "ContainerRemove",
                               [pc |-> "done", rc |-> "closed",
                                err |-> Err("RunnerExited", <<ContainerName(p)>>)])
                     ELSE Step(p, "ContainerRemove", [rc |-> "closed"] @@ EnterPublish(p))
             ELSE /\ UNCHANGED containers
                  /\ Step(p, "ContainerRemove",
                          [pc |-> "done", rc |-> "closed",
                           err |-> Err("ContainerOperationFailed",
                                       <<"remove", ContainerName(p)>>)])

\* step 11: one CreateResource call to the agent
CreateResource(p) ==
    /\ proc[p].pc = "CreateResource"
    /\ UNCHANGED <<metadata, comm, agentConns, volumes, networks, containers>>
    /\ \E o \in Outcomes :
          LET resource == proc[p].resources[proc[p].i]
          IN /\ Inject(o)
             /\ IF o = "ok"
                THEN /\ agent' = agent \cup {[id |-> NewID(p, <<proc[p].cur, resource.name>>),
                                              name |-> resource.name]}
                     /\ Step(p, "CreateResource",
                             [published |-> Append(proc[p].published,
                                                    [service |-> proc[p].cur] @@ resource)]
                                 @@ (IF proc[p].i + 1 > Len(proc[p].resources)
                                     THEN ReturnOk(p)
                                     ELSE [i |-> proc[p].i + 1]))
                ELSE /\ UNCHANGED agent
                     /\ Fail(p, "CreateResource",
                             Err("AgentCallFailed", <<resource.name>>))

(***************************************************************************)
(* Agent: delete-resource-by-name, as teardown and RemoveServices call it.  *)
(***************************************************************************)
\* where the loop over resourceNames goes when it is over
AfterDelete(ret) ==
    IF ret = "Teardown" THEN [pc |-> "TearDownVolumes"]
    ELSE EnterRemoveVolumes

EnterDelete(resourceNames, ret) ==
    IF comm /\ resourceNames # {}
    THEN [pc |-> "DeleteResourceByName", resourceNames |-> resourceNames, ret |-> ret]
    ELSE [resourceNames |-> resourceNames, ret |-> ret]
             @@ AfterDelete(ret)

\* one DeleteResourceByName call; its error is dropped
DeleteResourceByName(p) ==
    /\ proc[p].pc = "DeleteResourceByName"
    /\ UNCHANGED <<metadata, comm, agentConns, volumes, networks, containers>>
    /\ \E resource \in proc[p].resourceNames, o \in Outcomes :
          LET rest == proc[p].resourceNames \ {resource}
          IN /\ Inject(o)
             /\ agent' = IF o = "ok" THEN {r \in agent : r.name # resource} ELSE agent
             /\ Step(p, "DeleteResourceByName",
                     [resourceNames |-> rest,
                      deleted |-> proc[p].deleted \cup {resource},
                      dropped |-> IF o = "ok" THEN proc[p].dropped
                                  ELSE proc[p].dropped \cup {resource}]
                         @@ (IF rest = {} THEN AfterDelete(proc[p].ret)
                             ELSE [pc |-> "DeleteResourceByName"]))

(***************************************************************************)
(* RemoveServices and RemoveVolumes.                                        *)
(***************************************************************************)
RemoveName(p) == DockerServiceName(Job, metadata.remove_services[proc[p].i])

\* the next entry of remove_services, or the agent calls after the last
NextRemoveService(p) ==
    IF proc[p].i + 1 > Len(metadata.remove_services)
    THEN EnterDelete(proc[p].resourceNames, "RemoveServices")
    ELSE [pc |-> "RemoveServices", i |-> proc[p].i + 1]

\* ContainerInspect of the next entry of remove_services
RemoveServices(p) ==
    /\ proc[p].pc = "RemoveServices"
    /\ UNCHANGED <<metadata, comm, agentConns, volumes, networks, containers, agent>>
    /\ \E o \in Outcomes :
          /\ Inject(o)
          /\ IF o = "ok" /\ ByName(RemoveName(p)) # {}
             THEN Step(p, "ContainerInspect",
                       [pc |-> "RemoveServicesStop",
                        resourceNames |-> proc[p].resourceNames \cup
                            UNION {LabelNames(c.resources) :
                                      c \in ByName(RemoveName(p))}])
             ELSE Step(p, "ContainerInspect", NextRemoveService(p))

RemoveServicesStop(p) ==
    /\ proc[p].pc = "RemoveServicesStop"
    /\ UNCHANGED <<metadata, comm, agentConns, volumes, networks, agent>>
    /\ \E o \in Outcomes :
          /\ Inject(o)
          /\ containers' = IF o = "ok" THEN Stopped(ByName(RemoveName(p))) ELSE containers
          /\ Step(p, "ContainerStop", [pc |-> "RemoveServicesRemove"])

RemoveServicesRemove(p) ==
    /\ proc[p].pc = "RemoveServicesRemove"
    /\ UNCHANGED <<metadata, comm, agentConns, volumes, networks, agent>>
    /\ \E o \in Outcomes :
          /\ Inject(o)
          /\ IF o = "ok" /\ ByName(RemoveName(p)) # {}
             THEN /\ containers' = containers \ ByName(RemoveName(p))
                  /\ Step(p, "ContainerRemove",
                          [gone |-> proc[p].gone \cup ByName(RemoveName(p))]
                              @@ NextRemoveService(p))
             ELSE /\ UNCHANGED containers
                  /\ Fail(p, "ContainerRemove",
                          Err("ContainerOperationFailed", <<"remove", RemoveName(p)>>))

\* a volume that a container mounts cannot be removed
InUse(name) == \E c \in containers : name \in c.mounts

\* one iteration of RemoveVolumes: VolumeRemove, NotFound swallowed
RemoveVolumes(p) ==
    /\ proc[p].pc = "RemoveVolumes"
    /\ UNCHANGED <<metadata, comm, agentConns, networks, containers, agent>>
    /\ LET volume == metadata.remove_volumes[proc[p].i]
           volumeName == DockerVolumeName(Job, volume)
           next == IF proc[p].i + 1 > Len(metadata.remove_volumes)
                   THEN EnterSetupConnections
                   ELSE [i |-> proc[p].i + 1]
       IN IF volume = "" THEN UNCHANGED <<faults, volumes>> /\ Step(p, "", next)
          ELSE \E o \in Outcomes :
                  /\ Inject(o)
                  /\ IF o = "ok" /\ ~InUse(volumeName)
                     THEN /\ volumes' = {v \in volumes : v.name # volumeName}
                          /\ Step(p, "VolumeRemove", next)
                     ELSE /\ UNCHANGED volumes
                          /\ Fail(p, "VolumeRemove",
                                  Err("VolumeOperationFailed", <<"remove", volumeName>>))

(***************************************************************************)
(* SetupConnections: the connection plan.                                   *)
(***************************************************************************)
\* a resolver that takes the id of every ResourceRef, the absent one too:
\* the plan properties C34 and C35 must not survive it
resolveAnyResourceID(ref) == [id |-> ref.id, err |-> NoErr]

\* resolveResourceID: only a ResourceRef with an id resolves
resolveResourceID(ref) ==
    IF ref.id # "" THEN [id |-> ref.id, err |-> NoErr]
    ELSE [id |-> "", err |-> Err("UnresolvableResourceRef", <<>>)]

\* one entry of the plan: the creates in list order, then the removes
SetupConnections(p) ==
    /\ proc[p].pc = "SetupConnections"
    /\ UNCHANGED <<metadata, comm, volumes, networks, containers, agent>>
    /\ LET create == metadata.connections.create
           remove == metadata.connections.remove
           i == proc[p].i
           next == IF i + 1 > Len(create) + Len(remove) THEN [pc |-> "done"]
                   ELSE [i |-> i + 1]
       IN IF i <= Len(create)
          THEN LET r == resolveResourceID(create[i].resource)
               IN IF IsErr(r.err)
                  THEN UNCHANGED <<faults, agentConns>> /\ Fail(p, "", r.err)
                  ELSE \E o \in Outcomes :
                          /\ Inject(o)
                          /\ IF o = "ok"
                             THEN /\ agentConns' = agentConns \cup {<<r.id, "new">>}
                                  /\ Step(p, "CreateConnection",
                                          [connCalls |-> Append(proc[p].connCalls,
                                                                <<"POST", r.id,
                                                                  create[i].job,
                                                                  create[i].metadata>>)]
                                              @@ next)
                             ELSE /\ UNCHANGED agentConns
                                  /\ Fail(p, "CreateConnection",
                                          Err("AgentCallFailed", <<r.id>>))
          ELSE LET spec == remove[i - Len(create)]
               IN IF spec.id # ""
                  THEN IF ~spec.hasResource
                       THEN UNCHANGED <<faults, agentConns>>
                            /\ Fail(p, "", Err("ResourceRefRequiredForDelete", <<spec.id>>))
                       ELSE LET r == resolveResourceID(spec.resource)
                            IN IF IsErr(r.err)
                               THEN UNCHANGED <<faults, agentConns>> /\ Fail(p, "", r.err)
                               ELSE \E o \in Outcomes :
                                       /\ Inject(o)
                                       /\ IF o = "ok"
                                          THEN /\ agentConns' = agentConns \ {<<r.id, spec.id>>}
                                               /\ Step(p, "DeleteConnection",
                                                       [connCalls |->
                                                            Append(proc[p].connCalls,
                                                                   <<"DELETE", r.id, spec.id>>)]
                                                           @@ next)
                                          ELSE /\ UNCHANGED agentConns
                                               /\ Fail(p, "DeleteConnection",
                                                       Err("AgentCallFailed", <<spec.id>>))
                  ELSE UNCHANGED <<faults, agentConns>>
                       /\ IF spec.hasResource
                          THEN Fail(p, "", Err("BulkConnectionRemovalUnsupported", <<>>))
                          ELSE Step(p, "", next)

(***************************************************************************)
(* Teardown: label-driven removal of everything of the job.                 *)
(***************************************************************************)
\* a label filter that also asks for the run of the invocation: the
\* completeness property C4 must not survive it
OfJobAndRun(S) == {x \in S : x.job = Job /\ x.run \in {proc[p].run : p \in Procs}}

\* a list call without the label filter: the frame property C17 must not
\* survive it
Everything(S) == S

\* the label filter deploy-commander.job=<job> of the three list calls
OfJob(S) == {x \in S : x.job = Job}

\* ContainerList (all containers) with the label filter
TearDownServices(p) ==
    /\ proc[p].pc = "TearDownServices"
    /\ UNCHANGED <<metadata, comm, agentConns, volumes, networks, containers, agent>>
    /\ \E o \in Outcomes :
          LET items == {c.id : c \in OfJob(containers)}
          IN /\ Inject(o)
             /\ IF o = "fault" THEN Fail(p, "ContainerList", EngineFault)
                ELSE IF items = {}
                THEN Step(p, "ContainerList", EnterDelete({}, "Teardown"))
                ELSE Step(p, "ContainerList",
                          [pc |-> "TearDownInspect", list |-> items, resourceNames |-> {}])

\* a loop that ends after the first listed container: the order of removal
\* and agent calls C15 must not survive it
NextContainerOnly(p, c) == EnterDelete(proc[p].resourceNames, "Teardown")

\* where the loop over the listed containers goes after one of them
NextContainer(p, c) ==
    IF proc[p].list \ {c} = {} THEN EnterDelete(proc[p].resourceNames, "Teardown")
    ELSE [pc |-> "TearDownInspect"]

\* ContainerInspect of a listed container; a vanished one is skipped
TearDownInspect(p) ==
    /\ proc[p].pc = "TearDownInspect"
    /\ UNCHANGED <<metadata, comm, agentConns, volumes, networks, containers, agent>>
    /\ \E c \in proc[p].list, o \in Outcomes :
          /\ Inject(o)
          /\ IF o = "fault" THEN Fail(p, "ContainerInspect", EngineFault)
             ELSE IF ByID(c) = {}
             THEN Step(p, "ContainerInspect", [list |-> proc[p].list \ {c}] @@ NextContainer(p, c))
             ELSE Step(p, "ContainerInspect",
                       [pc |-> "TearDownStop", target |-> c,
                        resourceNames |-> proc[p].resourceNames \cup
                            UNION {LabelNames(x.resources) : x \in ByID(c)}])

TearDownStop(p) ==
    /\ proc[p].pc = "TearDownStop"
    /\ UNCHANGED <<metadata, comm, agentConns, volumes, networks, agent>>
    /\ \E o \in Outcomes :
          /\ Inject(o)
          /\ containers' = IF o = "ok" THEN Stopped(ByID(proc[p].target)) ELSE containers
          /\ Step(p, "ContainerStop", [pc |-> "TearDownRemove"])

\* ContainerRemove by ID; NotFound is tolerated
TearDownRemove(p) ==
    /\ proc[p].pc = "TearDownRemove"
    /\ UNCHANGED <<metadata, comm, agentConns, volumes, networks, agent>>
    /\ \E o \in Outcomes :
          /\ Inject(o)
          /\ IF o = "fault"
             THEN /\ UNCHANGED containers
                  /\ Fail(p, "ContainerRemove", EngineFault)
             ELSE /\ containers' = containers \ ByID(proc[p].target)
                  /\ Step(p, "ContainerRemove",
                          [list |-> proc[p].list \ {proc[p].target},
                           gone |-> proc[p].gone \cup ByID(proc[p].target)]
                              @@ NextContainer(p, proc[p].target))

\* VolumeList with the job label filter
TearDownVolumes(p) ==
    /\ proc[p].pc = "TearDownVolumes"
    /\ UNCHANGED <<metadata, comm, agentConns, volumes, networks, containers, agent>>
    /\ \E o \in Outcomes :
          LET items == {v.name : v \in OfJob(volumes)}
          IN /\ Inject(o)
             /\ IF o = "fault" THEN Fail(p, "VolumeList", EngineFault)
                ELSE IF items = {} THEN Step(p, "VolumeList", [pc |-> "TearDownNetworks"])
                ELSE Step(p, "VolumeList", [pc |-> "TearDownVolumeRemove", names |-> items])

\* VolumeRemove of a listed volume; NotFound is tolerated
TearDownVolumeRemove(p) ==
    /\ proc[p].pc = "TearDownVolumeRemove"
    /\ UNCHANGED <<metadata, comm, agentConns, networks, containers, agent>>
    /\ \E name \in proc[p].names, o \in Outcomes :
          /\ Inject(o)
          /\ IF o = "ok" /\ ~InUse(name)
             THEN /\ volumes' = {v \in volumes : v.name # name}
                  /\ Step(p, "VolumeRemove",
                          [names |-> proc[p].names \ {name},
                           pc |-> IF proc[p].names \ {name} = {} THEN "TearDownNetworks"
                                  ELSE "TearDownVolumeRemove"])
             ELSE /\ UNCHANGED volumes
                  /\ Fail(p, "VolumeRemove", Err("VolumeOperationFailed", <<"remove", name>>))

\* NetworkList with the job label filter
TearDownNetworks(p) ==
    /\ proc[p].pc = "TearDownNetworks"
    /\ UNCHANGED <<metadata, comm, agentConns, volumes, networks, containers, agent>>
    /\ \E o \in Outcomes :
          LET items == {n.id : n \in OfJob(networks)}
          IN /\ Inject(o)
             /\ IF o = "fault" THEN Fail(p, "NetworkList", EngineFault)
                ELSE IF items = {} THEN Step(p, "NetworkList", [pc |-> "done"])
                ELSE Step(p, "NetworkList", [pc |-> "TearDownNetworkRemove", list |-> items])

\* NetworkRemove by ID of a listed network; NotFound is tolerated; a network
\* with a running container attached cannot be removed
TearDownNetworkRemove(p) ==
    /\ proc[p].pc = "TearDownNetworkRemove"
    /\ UNCHANGED <<metadata, comm, agentConns, volumes, containers, agent>>
    /\ \E id \in proc[p].list, o \in Outcomes :
          /\ Inject(o)
          /\ IF o = "ok" /\ ~\E n \in networks, c \in containers :
                                 n.id = id /\ n.name \in c.networks
                                 /\ c.status = "running"
             THEN /\ networks' = {n \in networks : n.id # id}
                  /\ Step(p, "NetworkRemove",
                          [list |-> proc[p].list \ {id},
                           pc |-> IF proc[p].list \ {id} = {} THEN "done"
                                  ELSE "TearDownNetworkRemove"])
             ELSE /\ UNCHANGED networks
                  /\ Fail(p, "NetworkRemove", Err("NetworkOperationFailed", <<"remove">>))

(***************************************************************************)
(* The manifests explored.                                                  *)
(***************************************************************************)
Keys == {"a", "b", "c"}

Bare(role, deps) == MetadataService(role, deps, <<>>, <<>>, <<>>, <<>>)

\* the services that k depends on, directly or through other services
RECURSIVE Reachable(_, _, _)
Reachable(services, S, n) ==
    IF n = 0 THEN S
    ELSE Reachable(services,
                   S \cup UNION {Range(services[j].depends_on) \cap DOMAIN services : j \in S},
                   n - 1)

DependsOn(services, k) ==
    Reachable(services, Range(services[k].depends_on) \cap DOMAIN services,
              Cardinality(DOMAIN services))

HasCycle(services) == \E k \in DOMAIN services : k \in DependsOn(services, k)

\* every depends_on graph over three services that has a cycle, and the
\* acyclic ones up to a renaming of the services (dependencies point to
\* earlier keys), with and without runners
GraphManifests ==
    {m \in {Metadata([k \in Keys |->
                         Bare(IF k \in R THEN ServiceRoleRunner ELSE ServiceRoleService,
                              SortStrings(d[k], 1))],
                     <<>>, <<>>, <<>>) :
            d \in [Keys -> SUBSET Keys], R \in {{}, {"a"}, {"b"}, {"b", "c"}}} :
        \/ HasCycle(m.services)
        \/ LET \* the keys sorted before k
               Earlier(k) ==
                   {SortedKeys[j] : j \in {i \in 1..Len(SortedKeys) :
                       \E n \in i + 1..Len(SortedKeys) : SortedKeys[n] = k}}
           IN \A k \in Keys : Range(m.services[k].depends_on) \subseteq Earlier(k)}

Web(groups, conns, res, vols) == MetadataService(ServiceRoleService, <<>>, groups, conns, res, vols)

\* manifests with volumes, networks, resources and partial teardown lists
FeatureManifests ==
    { \* a declared volume, the runner scratch volume and a straggler
      Metadata("a" :> Web(<<>>, <<>>, <<>>, <<NamedMount("v", "/data")>>),
               <<"v">>, <<>>, <<>>),
      Metadata("a" :> Web(<<>>, <<>>, <<>>, <<ScratchMount("/tmp")>>),
               <<>>, <<>>, <<>>),
      Metadata("a" :> Web(<<>>, <<>>, <<>>,
                          <<NamedMount("v", "/data"), NamedMount("w", "/ext")>>),
               <<"v">>, <<>>, <<>>),
      \* a resource, a group network shared by two services, a dependency
      Metadata("a" :> Web(<<"g">>, <<>>, <<"main">>, <<>>)
               @@ "b" :> MetadataService(ServiceRoleService, <<"a">>, <<"g">>, <<>>,
                                         <<>>, <<>>),
               <<>>, <<>>, <<>>),
      \* a runner that produces a resource, and a service behind it
      Metadata("a" :> MetadataService(ServiceRoleRunner, <<>>, <<>>, <<>>, <<"seed">>,
                                      <<ScratchMount("/work")>>)
               @@ "b" :> MetadataService(ServiceRoleService, <<"a">>, <<>>, <<>>,
                                         <<"main">>, <<NamedMount("v", "/data")>>),
               <<"v">>, <<>>, <<>>),
      \* platform connections: an existing network and a missing one
      Metadata("a" :> Web(<<>>, <<PlatformConn("ext"), NetworkConn>>, <<>>, <<>>),
               <<>>, <<>>, <<>>),
      Metadata("a" :> Web(<<>>, <<PlatformConn("nope")>>, <<>>, <<>>),
               <<>>, <<>>, <<>>),
      \* partial teardown lists
      Metadata("a" :> Web(<<>>, <<>>, <<"main">>, <<>>),
               <<"v", "u">>, <<>>, <<"v">>),
      Metadata("a" :> Web(<<>>, <<>>, <<"main">>, <<NamedMount("v", "/data")>>)
               @@ "b" :> Web(<<>>, <<>>, <<>>, <<>>),
               <<"v">>, <<"b", "c">>, <<"u">>),
      \* a connection plan: one connection to post, one to delete, after
      \* a volume, a service and both partial teardown lists
      [Metadata("a" :> Web(<<>>, <<>>, <<"main">>, <<>>), <<"v">>, <<"c">>, <<"u">>)
          EXCEPT !.connections =
              ConnectionPlan(<<CreateConnectionSpec(Job, ResourceRef("x1", "", ""), "{}")>>,
                             <<RemoveConnectionSpec("k1", TRUE, ResourceRef("x1", "", ""))>>)] }

\* the logical names of the mounts that metadata.volumes does not declare
Undeclared(m) ==
    UNION {{TrimSpace(x.name) : x \in {y \in Range(m.services[k].volumes) : y.named}}
              : k \in DOMAIN m.services}
        \ {TrimSpace(v) : v \in Range(m.volumes)}

\* a volume provisioned for the job outside the runner
External(name) ==
    [name |-> DockerVolumeName(Job, name), job |-> Unlabelled, run |-> Unlabelled,
     volume |-> Unlabelled]

\* the network of another job that platform connections name
ExtNetwork == [id |-> <<"r0", 0, "ext">>, name |-> "ext", job |-> OtherJob, run |-> "r0", kind |-> "resource"]

(***************************************************************************)
(* One runner process at a time: a sequence of invocations for the job.     *)
(***************************************************************************)
InitEngine(m) ==
    /\ metadata = m
    /\ volumes \in {{External(n) : n \in S} : S \in SUBSET Undeclared(m)}
    /\ networks = {ExtNetwork}
    /\ containers = {}
    /\ agent = {}
    /\ agentConns = {}
    /\ comm = TRUE
    /\ proc = [p \in Procs |-> InitProc]

Init ==
    /\ \E m \in GraphManifests \cup FeatureManifests : InitEngine(m)
    /\ faults = 0

SetupStep(p) ==
    \/ CheckMetadata(p)
    \/ checkExistingDockerVolumes(p)
    \/ VolumeSetup(p)
    \/ VolumeCreate(p)
    \/ VolumeReinspect(p)
    \/ ServiceSetup(p)
    \/ NetworkGroups(p)
    \/ Connections(p)
    \/ Resources(p)
    \/ DefaultNetwork(p)
    \/ NetworkInspect(p)
    \/ NetworkCreate(p)
    \/ NetworkReinspect(p)
    \/ ContainerInspect(p)
    \/ ContainerStop(p)
    \/ ContainerRemove(p)
    \/ ContainerCreate(p)
    \/ ContainerReinspect(p)
    \/ ContainerStart(p)
    \/ ContainerLogs(p)
    \/ DemuxDockerLogs(p)
    \/ ContainerWait(p)
    \/ logDone(p)
    \/ RunnerRemove(p)
    \/ CreateResource(p)
    \/ RemoveServices(p)
    \/ RemoveServicesStop(p)
    \/ RemoveServicesRemove(p)
    \/ DeleteResourceByName(p)
    \/ RemoveVolumes(p)
    \/ SetupConnections(p)

TeardownStep(p) ==
    \/ TearDownServices(p)
    \/ TearDownInspect(p)
    \/ TearDownStop(p)
    \/ TearDownRemove(p)
    \/ TearDownVolumes(p)
    \/ TearDownVolumeRemove(p)
    \/ TearDownNetworks(p)
    \/ TearDownNetworkRemove(p)

Next == \E p \in Procs : Start(p) \/ SetupStep(p) \/ TeardownStep(p)

Spec == Init /\ [][Next]_vars

(***************************************************************************)
(* Two runner processes at a time: both are invoked for a setup with the    *)
(* same Configuration (job, run and manifest), on an empty engine or on the *)
(* engine as one earlier setup left it. No engine call fails for a reason   *)
(* other than the state of the engine.                                      *)
(***************************************************************************)
InitConc ==
    /\ \E m \in
          { \* one service on the default network
            Metadata("a" :> Web(<<>>, <<>>, <<>>, <<>>), <<>>, <<>>, <<>>),
            \* a declared volume, a group network and a resource network
            Metadata("a" :> Web(<<"g">>, <<>>, <<"main">>, <<NamedMount("v", "/data")>>),
                     <<"v">>, <<>>, <<>>),
            \* two services in one group, one after the other
            Metadata("a" :> Web(<<"g">>, <<>>, <<>>, <<>>)
                     @@ "b" :> MetadataService(ServiceRoleService, <<"a">>, <<"g">>, <<>>,
                                               <<>>, <<>>),
                     <<>>, <<>>, <<>>),
            \* a declared volume that remove_volumes names as well
            Metadata("a" :> Web(<<>>, <<>>, <<>>, <<>>), <<"v">>, <<>>, <<"V ">>) } :
          InitEngine(m)
    /\ faults = MaxFaults

\* one setup on its own, before the two that race
StartFirst ==
    /\ \A p \in Procs : proc[p].pc = "idle"
    /\ proc' = [proc EXCEPT ![1] = Run(1, "setup", 1)]
    /\ UNCHANGED <<metadata, comm, agentConns, volumes, networks, containers, agent, faults>>

\* the two processes are invoked with the same Configuration
StartBoth ==
    /\ ~proc[1].conc /\ Rested(1) /\ proc[2].pc = "idle"
    /\ proc' = [p \in Procs |-> [Run(p, "setup", proc[1].inv + 1) EXCEPT !.conc = TRUE]]
    /\ UNCHANGED <<metadata, comm, agentConns, volumes, networks, containers, agent, faults>>

\* the steps of a setup whose manifest has no runner, no straggler, no
\* platform connection, no remove_services and no connection plan
ConcStep(p) ==
    \/ CheckMetadata(p)
    \/ VolumeSetup(p)
    \/ VolumeCreate(p)
    \/ VolumeReinspect(p)
    \/ ServiceSetup(p)
    \/ NetworkGroups(p)
    \/ Resources(p)
    \/ DefaultNetwork(p)
    \/ NetworkInspect(p)
    \/ NetworkCreate(p)
    \/ NetworkReinspect(p)
    \/ ContainerInspect(p)
    \/ ContainerStop(p)
    \/ ContainerRemove(p)
    \/ ContainerCreate(p)
    \/ ContainerReinspect(p)
    \/ ContainerStart(p)
    \/ CreateResource(p)
    \/ RemoveVolumes(p)

NextConc == StartFirst \/ StartBoth \/ \E p \in Procs : ConcStep(p)

SpecConc == InitConc /\ [][NextConc]_vars

(***************************************************************************)
(* The dependency scheduler on its own: ServiceSetup is called for a        *)
(* manifest that no validator has seen, on an empty engine, and no engine   *)
(* call fails.                                                              *)
(***************************************************************************)
\* every depends_on graph over three services that are not runners
InitSched ==
    /\ \E m \in {g \in GraphManifests :
                    \A k \in DOMAIN g.services : ~IsRunnerRole(g.services[k])} :
          InitEngine(m)
    /\ faults = MaxFaults

\* the call of ServiceSetup
StartSched ==
    /\ proc[1].pc = "idle"
    /\ proc' = [proc EXCEPT ![1] =
                   [f \in DOMAIN InitProc |->
                       (EnterServiceSetup @@ [phases |-> <<3>>] @@ Run(1, "setup", 1))[f]]]
    /\ UNCHANGED <<metadata, comm, agentConns, volumes, networks, containers, agent, faults>>

\* the steps of ServiceSetup and of SetupService for a service that has
\* nothing but an image
SchedStep(p) ==
    \/ ServiceSetup(p)
    \/ DefaultNetwork(p)
    \/ NetworkInspect(p)
    \/ NetworkCreate(p)
    \/ ContainerInspect(p)
    \/ ContainerCreate(p)
    \/ ContainerStart(p)

NextSched == StartSched \/ \E p \in Procs : SchedStep(p)

SpecSched == InitSched /\ [][NextSched]_vars

(***************************************************************************)
(* One setup of a manifest of services that have nothing but an image, a    *)
(* role and dependencies, on an empty engine.  Every engine call returns,   *)
(* and none fails: a process that can take a step takes one.                *)
(***************************************************************************)
InitPlan ==
    /\ \E m \in GraphManifests : InitEngine(m)
    /\ faults = MaxFaults

\* the steps of ServiceSetup and of the SetupService calls it makes
PlanStep(p) ==
    \/ SchedStep(p)
    \/ ContainerLogs(p)
    \/ DemuxDockerLogs(p)
    \/ ContainerWait(p)
    \/ logDone(p)
    \/ RunnerRemove(p)

NextPlan == StartFirst \/ \E p \in Procs : CheckMetadata(p) \/ PlanStep(p)

SpecPlan == InitPlan /\ [][NextPlan]_vars /\ WF_vars(\E p \in Procs : PlanStep(p))

(***************************************************************************)
(* main: the agent client is built from the environment, its error is       *)
(* overwritten by the result of selectPlatform, and Run is called with the  *)
(* client that came back, on the manifest of /run/config.json.              *)
(***************************************************************************)
\* TRUE when a client is returned, FALSE when nil and an error are returned
NewAgentCommunicationFromEnv(env) ==
    LET endpoint == TrimSpace(env.AGENT_ENDPOINT)
        token == TrimSpace(env.TOKEN)
        Rest(pre) == IF Len(endpoint) >= Len(pre) /\ SubSeq(endpoint, 1, Len(pre)) = pre
                     THEN SubSeq(endpoint, Len(pre) + 1, Len(endpoint)) ELSE ""
        \* NewAgentCommunication: unix:// needs a path, tcp:// a host:port
        parsed == (Len(Rest("unix://")) > 0 /\ Chr(Rest("unix://"), 1) = "/")
                  \/ (Len(Rest("tcp://")) > 0 /\ Chr(Rest("tcp://"), 1) # "/")
    IN endpoint # "" /\ token # "" /\ parsed

\* manifests at the edge of what the validator and the naming functions
\* accept
EdgeManifests ==
    { \* two declared volumes that differ in case, and in space against dash
      Metadata("a" :> Web(<<>>, <<>>, <<>>,
                          <<NamedMount("V", "/x"), NamedMount("v", "/y")>>),
               <<"V", "v">>, <<>>, <<>>),
      Metadata(<<>>, <<"a b", "a-b">>, <<>>, <<>>),
      \* a group called like the network of a resource
      Metadata("a" :> Web(<<"x-resource">>, <<>>, <<"x">>, <<>>), <<>>, <<>>, <<>>),
      \* two services that depend on each other
      Metadata("a" :> Bare(ServiceRoleService, <<"b">>)
               @@ "b" :> Bare(ServiceRoleService, <<"a">>), <<>>, <<>>, <<>>) }
    \cup
    \* connection plans: creates and removes with and without ids, for this
    \* job and for another one
    {[Metadata(<<>>, <<>>, <<>>, <<>>) EXCEPT !.connections = ConnectionPlan(c, r)] :
        c \in {<<>>,
               <<CreateConnectionSpec(Job, ResourceRef("x1", "", ""), "{}"),
                 CreateConnectionSpec(OtherJob, ResourceRef("x2", "", ""), "{\"a\":1}")>>,
               <<CreateConnectionSpec(Job, ResourceRef("x1", "", ""), "{}"),
                 CreateConnectionSpec(Job, ResourceRef("", "a", "main"), "{}"),
                 CreateConnectionSpec(Job, ResourceRef("x2", "", ""), "{}")>>,
               <<CreateConnectionSpec(Job, ResourceRef("", "", ""), "{}"),
                 CreateConnectionSpec(Job, ResourceRef("x1", "", ""), "{}")>>},
        r \in {<<>>,
               <<RemoveConnectionSpec("k1", TRUE, ResourceRef("x1", "", "")),
                 RemoveConnectionSpec("k2", TRUE, ResourceRef("x2", "", ""))>>,
               <<RemoveConnectionSpec("k1", TRUE, ResourceRef("x1", "", "")),
                 RemoveConnectionSpec("k2", FALSE, ResourceRef("", "", "")),
                 RemoveConnectionSpec("k3", TRUE, ResourceRef("x1", "", ""))>>,
               <<RemoveConnectionSpec("", TRUE, ResourceRef("x1", "", "")),
                 RemoveConnectionSpec("k1", TRUE, ResourceRef("x1", "", ""))>>,
               <<RemoveConnectionSpec("k1", TRUE, ResourceRef("", "a", "main")),
                 RemoveConnectionSpec("k2", TRUE, ResourceRef("x2", "", ""))>>,
               <<RemoveConnectionSpec("", FALSE, ResourceRef("", "", "")),
                 RemoveConnectionSpec("k1", TRUE, ResourceRef("x1", "", ""))>>}}
    \cup
    \* empty and duplicate volume declarations, with a service and without
    {Metadata(svcs, vols, <<>>, <<>>) :
        svcs \in {<<>>, "a" :> Web(<<>>, <<>>, <<>>, <<>>)},
        vols \in {<<"">>, <<"v", " ">>, <<"v", "v">>, <<"v", " v ">>}}

InitMain ==
    /\ \E config \in FeatureManifests \cup EdgeManifests,
          env \in [AGENT_ENDPOINT : {"", " ", "http://agent", "tcp://agent:1",
                                     "unix:///run/agent.sock"},
                   TOKEN : {"", "t"}] :
          /\ metadata = config
          /\ comm = NewAgentCommunicationFromEnv(env)
    /\ volumes = {}
    /\ networks = {ExtNetwork}
    /\ containers = {}
    /\ agent = {}
    /\ agentConns = {}
    /\ faults = 0
    /\ proc = [p \in Procs |-> InitProc]

SpecMain == InitMain /\ [][Next]_vars

(***************************************************************************)
(* VolumeSetup on its own: two processes provision the declared volumes of  *)
(* a manifest without services at the same time, on an engine that may hold *)
(* one of them, and an engine call may fail.                                *)
(***************************************************************************)
InitVol ==
    /\ \E vols \in {<<"v">>, <<"v", "u">>, <<"V", "v">>} :
          metadata = Metadata(<<>>, vols, <<>>, <<>>)
    /\ volumes \in {{}, {External("v")}}
    /\ networks = {}
    /\ containers = {}
    /\ agent = {}
    /\ agentConns = {}
    /\ comm = TRUE
    /\ faults = 0
    /\ proc = [p \in Procs |-> InitProc]

NextVol ==
    \/ StartBoth
    \/ \E p \in Procs :
          CheckMetadata(p) \/ VolumeSetup(p) \/ VolumeCreate(p) \/ VolumeReinspect(p)

SpecVol == InitVol /\ [][NextVol]_vars

(***************************************************************************)
(* The runner wait under a scheduler that runs every task that can run: a   *)
(* wait that can return returns, and the log task is not starved.           *)
(***************************************************************************)
SpecWait ==
    /\ InitMain
    /\ [][Next]_vars
    /\ WF_vars(\E p \in Procs : \/ ContainerWait(p) \/ logDone(p)
                                \/ DemuxDockerLogs(p))

(***************************************************************************)
(* A job that was deployed before: the engine holds containers of the job   *)
(* that an earlier run made from another manifest, with the resources label *)
(* that run wrote, or a label that was edited by hand.                      *)
(***************************************************************************)
InitPrior ==
    /\ \E m \in FeatureManifests \cup
          \* a Platform connection without a network, and port bindings: with
          \* and without host port, a host_ip that does not parse, and
          \* container ports beyond 16 bits
          {Metadata("a" :> Web(<<"g">>, <<PlatformConn("")>>, <<>>, <<>>),
                    <<>>, <<>>, <<>>)}
          \cup {Metadata("a" :> [Web(<<>>, <<>>, <<"main">>, <<>>)
                                    EXCEPT !.bindings = b], <<>>, <<>>, <<>>) :
                   b \in {<<BindingSpec(<<80>>, <<8080>>, <<>>),
                            BindingSpec(<<>>, <<1>>, <<"bad">>),
                            BindingSpec(<<53>>, <<>>, <<"bad">>)>>,
                          <<BindingSpec(<<443>>, <<8443>>, <<"127.0.0.1">>),
                            BindingSpec(<<22>>, <<22>>, <<"localhost">>)>>,
                          <<BindingSpec(<<80>>, <<80>>, <<"10.0.0.256">>)>>,
                          <<BindingSpec(<<80>>, <<80>>, <<"010.0.0.1">>)>>,
                          <<BindingSpec(<<80>>, <<80>>, <<"">>)>>,
                          <<BindingSpec(<<70000>>, <<>>, <<>>)>>,
                          <<BindingSpec(<<65536>>, <<80>>, <<"0.0.0.0">>)>>,
                          <<BindingSpec(<<0 - 1>>, <<>>, <<>>)>>}} :
          metadata = m
    /\ LET Prior(service, label) ==
               [id |-> <<"r0", 0, DockerServiceName(Job, service)>>,
                name |-> DockerServiceName(Job, service), status |-> "running",
                exit |-> 0, mounts |-> {}, networks |-> {}, exposed |-> {},
                portMap |-> {}, job |-> Job, run |-> "r0",
                service |-> service, resources |-> label]
       IN \E A \in {{}} \cup {{Prior("a", l)} :
                                l \in {{}, {"old"}, {"", "old"}, {"main", "old"}, Malformed}},
             B \in {{}, {Prior("b", {"dep"})}},
             C \in {{}, {Prior("c", {"", "gone"})}} :
             containers = A \cup B \cup C
    /\ volumes = {}
    /\ networks = {ExtNetwork}
    /\ agent = {}
    /\ agentConns = {}
    /\ comm = TRUE
    /\ faults = 0
    /\ proc = [p \in Procs |-> InitProc]

SpecPrior == InitPrior /\ [][Next]_vars

(***************************************************************************)
(* Properties of one runner process at a time.                              *)
(***************************************************************************)
Services == metadata.services
Deps(a) == Range(Services[a].depends_on)
Running(p) == proc[p].action = "setup"
Succeeded(p) == proc[p].pc = "done" /\ ~IsErr(proc[p].err)

\* every resource of b has been sent to the agent by p in this invocation
Published(p, b) ==
    \A k \in DOMAIN Services[b].resources :
        \E j \in DOMAIN proc[p].published :
            /\ proc[p].published[j].service = b
            /\ proc[p].published[j].name = Services[b].resources[k]

\* the reconcile of b has returned without error: its container was started,
\* a runner exited with status 0, and its resources were published
Reconciled(p, b) ==
    /\ b \in Range(proc[p].ranServices)
    /\ b \in proc[p].started
    /\ IsRunnerRole(Services[b]) => <<b, 0>> \in proc[p].exited
    /\ comm => Published(p, b)

\* C1: in a setup run, when the reconcile of a service a has begun (a is
\* the service being reconciled, or a call of its reconcile has been issued),
\* the reconcile of every service in a.depends_on has returned successfully,
\* whatever the iteration order of the service map.
C1_DependenciesFirst ==
    \A p \in Procs :
        Running(p) =>
            \A a \in proc[p].begun \cup ({proc[p].cur} \ {""}) :
                \A b \in Deps(a) : Reconciled(p, b)

\* a setup run has succeeded in which a service with two dependencies, one
\* of them a runner, was reconciled
C1_Witness ==
    \E p \in Procs :
        /\ Running(p) /\ Succeeded(p)
        /\ \E a \in proc[p].begun :
              /\ Cardinality(Deps(a)) = 2
              /\ \E b \in Deps(a) : IsRunnerRole(Services[b])

\* the wait on the runner r's container reported an error
WaitFailed(p, r) ==
    proc[p].err = Err("ContainerOperationFailed", <<"wait", DockerServiceName(Job, r)>>)

\* the runner r's container ended other than with status 0
RunnerLost(p, r) ==
    \/ \E code \in ExitCodes \ {0} : <<r, code>> \in proc[p].exited
    \/ WaitFailed(p, r)

\* C2: for a runner r and a service s that depends on r directly or through
\* other services, s is created or started in a setup run only after r has
\* exited with status 0; once r has exited with another status or its wait
\* has failed, s is not created in that run and the run ends with an error.
C2_RunnerGating ==
    \A p \in Procs :
        Running(p) =>
            \A s \in DOMAIN Services :
                \A r \in DependsOn(Services, s) :
                    IsRunnerRole(Services[r]) =>
                        /\ s \in proc[p].created \cup proc[p].started
                               => <<r, 0>> \in proc[p].exited
                        /\ RunnerLost(p, r) =>
                               /\ s \notin proc[p].created \cup proc[p].started
                               /\ proc[p].pc = "done" => IsErr(proc[p].err)

\* a run has ended with RunnerExited for a runner that another service
\* depends on through a third one
C2_Witness ==
    \E p \in Procs :
        /\ Running(p) /\ proc[p].pc = "done"
        /\ proc[p].err.kind = "RunnerExited"
        /\ \E s \in DOMAIN Services : \E r \in DependsOn(Services, s) :
              /\ r \notin Deps(s)
              /\ IsRunnerRole(Services[r])
              /\ \E code \in ExitCodes \ {0} : <<r, code>> \in proc[p].exited

\* C3: a setup run for a manifest whose depends_on graph has a cycle (a
\* self-dependency included) issues no engine call and no agent call, and
\* ends in validation with the cycle error.
C3_CycleRejected ==
    \A p \in Procs :
        (Running(p) /\ HasCycle(Services)) =>
            /\ proc[p].calls = {}
            /\ proc[p].pc \in {"CheckMetadata", "done"}
            /\ proc[p].pc = "done" => proc[p].err.kind = "CycleDetected"

\* a setup run was rejected for a cycle that is not a self-dependency,
\* after an invocation that made engine calls
C3_Witness ==
    \E p \in Procs :
        /\ Running(p) /\ proc[p].pc = "done" /\ proc[p].inv = 2
        /\ HasCycle(Services)
        /\ \A k \in DOMAIN Services : k \notin Deps(k)

\* C4: when a teardown of the job has returned without error, the engine
\* holds no container, no volume and no network labelled with the job,
\* whatever earlier setup runs have put there.
C4_TeardownComplete ==
    \A p \in Procs :
        (proc[p].action = "teardown" /\ Succeeded(p)) =>
            \A x \in containers \cup volumes \cup networks : x.job # Job

\* a teardown has succeeded that removed a container, a volume and a
\* network of an earlier setup
C4_Witness ==
    \E p \in Procs :
        /\ proc[p].action = "teardown" /\ Succeeded(p)
        /\ {"ContainerRemove", "VolumeRemove", "NetworkRemove"} \subseteq proc[p].calls
        /\ \E n \in proc[p].prevNames : n[1] = "volume"

\* the engine objects of one kind and name
Objects(kind, name) ==
    IF kind = "volume" THEN {v \in volumes : v.name = name}
    ELSE IF kind = "network" THEN {n \in networks : n.name = name}
    ELSE {c \in containers : c.name = name}

\* C5: after a successful setup run, every container, network and volume
\* that the run created or caused to exist in the engine (the volumes behind
\* the mounts of its containers included) carries the job label and the
\* run label of the run.
C5_LabelsComplete ==
    \A p \in Procs :
        (Running(p) /\ Succeeded(p)) =>
            \A m \in proc[p].made :
                \A x \in Objects(m[1], m[2]) : x.job = Job /\ x.run = proc[p].run

\* C6: every volume that a ContainerCreate call of a setup run names as the
\* source of a mount was, earlier in the run, found by VolumeInspect or
\* created by VolumeCreate.
C6_MountsProvisioned ==
    \A p \in Procs : Running(p) => proc[p].mounted \subseteq proc[p].observed

\* no engine or agent call of p's invocation has failed for a reason other
\* than the state of the engine
Undisturbed(p) == faults = proc[p].prevFaults

\* p's invocation is a setup that succeeded, right after a setup that
\* succeeded on the same Configuration, and no call of it failed for a
\* transient reason
SecondRun(p) == Running(p) /\ Succeeded(p) /\ proc[p].prevOk /\ Undisturbed(p)

NonRunners == {s \in DOMAIN Services : ~IsRunnerRole(Services[s])}

Provisioning == {"VolumeCreate", "VolumeRemove", "NetworkCreate", "NetworkRemove"}

\* what C7 says of a second run
Repeats(p) ==
    /\ ArtifactNames = proc[p].prevNames
    /\ proc[p].calls \cap Provisioning = {}
    /\ \A s \in NonRunners :
          s \in proc[p].removed /\ s \in proc[p].created /\ s \in proc[p].started

NoRemovals ==
    /\ Len(metadata.remove_volumes) = 0
    /\ \A s \in DOMAIN Services, k \in DOMAIN metadata.remove_services :
          DockerServiceName(Job, metadata.remove_services[k]) # DockerServiceName(Job, s)

C8_NoFurtherRecord ==
    \A p \in Procs :
        SecondRun(p) =>
            \A r \in agent \ proc[p].prevAgent :
                r.name \notin {x.name : x \in proc[p].prevAgent}

(***************************************************************************)
(* Properties of two runner processes at a time.                            *)
(***************************************************************************)
Racing == \A p \in Procs : proc[p].conc
Finished == Racing /\ \A p \in Procs : proc[p].pc = "done"

\* p has failed to provision a volume or a network
ProvisionFailed(p) ==
    /\ proc[p].err.kind \in {"VolumeOperationFailed", "NetworkOperationFailed"}
    /\ proc[p].err.at[1] \in {"inspect", "create"}

DeclaredNames == {DockerVolumeName(Job, metadata.volumes[k]) : k \in DOMAIN metadata.volumes}
RemovedNames ==
    {DockerVolumeName(Job, metadata.remove_volumes[k]) : k \in DOMAIN metadata.remove_volumes}

\* what C9 says of two racing setups
Provisioned ==
    /\ \A p \in Procs : ~ProvisionFailed(p)
    /\ (Finished /\ \E p \in Procs : Succeeded(p)) =>
          /\ \A n \in DeclaredNames : Cardinality(Objects("volume", n)) = 1
          /\ \A p \in Procs : \A n \in proc[p].createdNetworks :
                Cardinality(Objects("network", n)) = 1

C10_ReconcileSafe ==
    Racing =>
        /\ \A p \in Procs : proc[p].err.kind # "ContainerOperationFailed"
        /\ Finished =>
              \A s \in NonRunners :
                  Cardinality({c \in Objects("container", DockerServiceName(Job, s)) :
                                 c.status = "running"}) = 1

(***************************************************************************)
(* Properties of validation, of the networks of a service and of the        *)
(* phases of an invocation.                                                 *)
(***************************************************************************)
\* validation of p's setup has returned without error
Validated(p) == Running(p) /\ (Succeeded(p) \/ \E k \in DOMAIN proc[p].phases : proc[p].phases[k] > 1)

\* p's setup has ended in validation after a VolumeInspect
InspectFailed(p) ==
    /\ Running(p) /\ proc[p].pc = "done"
    /\ proc[p].phases = <<1>> /\ "VolumeInspect" \in proc[p].calls

\* the engine names of the volumes that services mount and metadata.volumes
\* does not declare
StragglerNames == {DockerVolumeName(Job, v) : v \in Undeclared(metadata)}

\* C11: for a manifest whose services mount a named volume that
\* metadata.volumes does not list, validation succeeds only after a
\* successful VolumeInspect of the engine name of every such volume; when an
\* inspect fails, validation returns the inspection error as it is (NotFound
\* for that engine name, or the engine's failure) and the run has issued no
\* other call and has created or removed nothing.
C11_StragglersInspected ==
    \A p \in Procs :
        /\ Validated(p) => StragglerNames \subseteq proc[p].observed
        /\ InspectFailed(p) =>
              /\ \/ proc[p].err = EngineFault
                 \/ \E n \in StragglerNames \ VolumeNames : proc[p].err = Err("NotFound", <<n>>)
              /\ proc[p].calls = {"VolumeInspect"}
              /\ proc[p].made = {}
              /\ ArtifactNames = proc[p].prevNames

\* validation has returned NotFound for a volume that is mounted, not
\* declared and not in the engine
C11_Witness ==
    \E p \in Procs :
        /\ InspectFailed(p) /\ proc[p].err.kind = "NotFound"
        /\ StragglerNames \ VolumeNames # {}

\* the network names of the Platform connections of service s, as the
\* connection data give them
PlatformNets(s) ==
    {Services[s].connections[k].network :
        k \in {j \in DOMAIN Services[s].connections :
                  Services[s].connections[j].type = ResourceConnectionTypePlatform}}

\* the containers of the job that carry the service's name
NamedFor(s) == {c \in containers : c.name = DockerServiceName(Job, s)}

\* C12: the network name of every Platform connection is used unchanged in
\* the NetworkInspect call and as a network of the container; the run makes
\* no network of that name; and when the inspect fails the reconcile of the
\* service fails and has created, stopped or removed no container of it.
C12_PlatformVerbatim ==
    \A p \in Procs :
        Running(p) =>
            /\ proc[p].platformInspected \subseteq UNION {PlatformNets(s) : s \in DOMAIN Services}
            /\ \A c \in containers :
                  (c.job = Job /\ c.run = proc[p].run) =>
                      /\ PlatformNets(c.service) \subseteq c.networks
                      /\ PlatformNets(c.service) \subseteq proc[p].platformInspected
            /\ \A s \in DOMAIN Services : \A n \in PlatformNets(s) :
                  <<"network", n>> \notin proc[p].made
            /\ proc[p].err.kind = "PlatformNetworkMissing" =>
                  /\ proc[p].pc = "done"
                  /\ proc[p].cur \notin proc[p].created \cup proc[p].removed \cup proc[p].started
                  /\ \A c \in NamedFor(proc[p].cur) :
                        c.run # proc[p].run /\ c.status = "running"

\* a second setup has failed on the inspect of a platform network and the
\* container that the first setup left for the service is still running
C12_Witness ==
    \E p \in Procs :
        /\ Running(p) /\ proc[p].err.kind = "PlatformNetworkMissing"
        /\ proc[p].platformInspected # {}
        /\ NamedFor(proc[p].cur) # {}

\* the phases were entered in the order of Run, none twice
Ordered(ph) == \A j, k \in DOMAIN ph : j < k => ph[j] < ph[k]

\* p has called the agent for an entry of the connection plan
PlanCalled(p) ==
    \/ proc[p].connCalls # <<>>
    \/ proc[p].calls \cap {"CreateConnection", "DeleteConnection"} # {}

\* C13: a setup run enters its phases in the order validation, volume
\* provisioning, service reconciliation, remove_services, remove_volumes,
\* connection plan; an error ends the run in the phase it occurred in; and a
\* connection-plan call to the agent is made only after every service has
\* been reconciled and no earlier phase has failed.
C13_PhaseOrder ==
    \A p \in Procs :
        Running(p) =>
            /\ Ordered(proc[p].phases)
            /\ IsErr(proc[p].err) => proc[p].pc = "done"
            /\ PlanCalled(p) =>
                  /\ proc[p].phases[Len(proc[p].phases)] = 6
                  /\ \A s \in DOMAIN Services : Reconciled(p, s)
            /\ (IsErr(proc[p].err) /\ proc[p].phases[Len(proc[p].phases)] # 6) =>
                  ~PlanCalled(p)

\* a setup has gone through all six phases and has made both calls of its
\* connection plan
C13_Witness ==
    \E p \in Procs :
        /\ Running(p) /\ Succeeded(p)
        /\ proc[p].phases = <<1, 2, 3, 4, 5, 6>>
        /\ Len(proc[p].connCalls) = 2

\* p has sent a resource of service s to the agent
PublishedOf(p, s) == \E j \in DOMAIN proc[p].published : proc[p].published[j].service = s

\* the start of the container of s has succeeded and, if s is a runner, the
\* container has exited with status 0
Up(p, s) ==
    /\ s \in proc[p].started
    /\ Services[s].role = ServiceRoleRunner => <<s, 0>> \in proc[p].exited

\* the reconcile of s has failed at the start of the container or on the
\* exit status of the runner
Down(p, s) ==
    /\ proc[p].cur = s
    /\ \/ proc[p].err = Err("ContainerOperationFailed", <<"start", DockerServiceName(Job, s)>>)
       \/ proc[p].err.kind = "RunnerExited"

\* C14: a CreateResource call for a resource of service s is issued only
\* after ContainerStart of s's container has succeeded and, when s is a
\* runner, after the container has exited with status 0; when the start
\* fails or the runner exits with another status, no resource of s is
\* published.
C14_PublishAfterStart ==
    \A p \in Procs :
        Running(p) =>
            /\ proc[p].pc = "CreateResource" => Up(p, proc[p].cur)
            /\ \A s \in DOMAIN Services :
                  /\ PublishedOf(p, s) => Up(p, s)
                  /\ Down(p, s) => ~PublishedOf(p, s)

\* a runner has exited with status 0 and its resource has been published,
\* and the service behind it has published its own
C14_Witness ==
    \E p \in Procs :
        /\ Running(p) /\ Succeeded(p)
        /\ \E s, r \in DOMAIN Services :
              /\ Services[r].role = ServiceRoleRunner /\ PublishedOf(p, r)
              /\ Services[s].role = ServiceRoleService /\ PublishedOf(p, s)

(***************************************************************************)
(* Properties of a teardown.                                                *)
(***************************************************************************)
TearingDown(p) == proc[p].action = "teardown"

\* the container phase of p's teardown is over
PastContainers(p) == proc[p].pc = "TearDownVolumes" \/ "VolumeList" \in proc[p].calls

\* the engine holds a container labelled with the job
JobContainers == {c \in containers : c.job = Job}

\* C15: a teardown of the job issues a delete-resource-by-name for every
\* resource name in the deploy-commander.resources label of a container
\* labelled with the job, and only after all those containers are removed;
\* an agent call that fails does not make the teardown fail: the volume and
\* network phases follow, and an error of the teardown has another cause.
C15_TeardownDeletes ==
    \A p \in Procs :
        TearingDown(p) =>
            /\ (proc[p].pc = "DeleteResourceByName" \/ proc[p].deleted # {}) =>
                  JobContainers = {}
            /\ PastContainers(p) => proc[p].deleted = proc[p].prevLabels
            /\ proc[p].err.kind # "AgentCallFailed"
            /\ IsErr(proc[p].err) =>
                  faults - proc[p].prevFaults > Cardinality(proc[p].dropped)
            /\ Succeeded(p) => {"VolumeList", "NetworkList"} \subseteq proc[p].calls

\* a teardown has succeeded and removed a volume and a network after a
\* delete-resource-by-name call that failed
C15_Witness ==
    \E p \in Procs :
        /\ TearingDown(p) /\ Succeeded(p)
        /\ proc[p].dropped # {}
        /\ {"VolumeRemove", "NetworkRemove"} \subseteq proc[p].calls

\* C16: every resource that a successful setup of the job published to the
\* agent, by a runner or by another service, is the subject of a
\* delete-resource-by-name call of the teardown that follows.
C16_PublishedDeleted ==
    \A p \in Procs :
        (TearingDown(p) /\ proc[p].prevOk /\ PastContainers(p)) =>
            {r.name : r \in proc[p].prevAgent} \subseteq proc[p].deleted

\* what does hold: the resources of the services that are not runners are
\* the subject of a delete-resource-by-name call
C16_NonRunnerDeleted ==
    \A p \in Procs :
        (TearingDown(p) /\ proc[p].prevOk /\ PastContainers(p)) =>
            {r.name : r \in proc[p].prevAgent} \ 
                UNION {Range(Services[s].resources) :
                          s \in {k \in DOMAIN Services : Services[k].role = ServiceRoleRunner}}
              \subseteq proc[p].deleted

\* the engine and agent calls of Teardown
TeardownCalls ==
    {"ContainerList", "ContainerInspect", "ContainerStop", "ContainerRemove",
     "DeleteResourceByName", "VolumeList", "VolumeRemove", "NetworkList", "NetworkRemove"}

\* the containers, volumes and networks that do not carry the job's label
Others == {x \in containers \cup volumes \cup networks : x.job # Job}

MaySurvive(p) ==
    \/ proc[p].pc \in {"VolumeCreate", "NetworkCreate", "ContainerCreate"}
    \/ proc[p].pc = "DeleteResourceByName" /\ proc[p].action = "teardown"

\* C18: an engine or agent call that fails (other than with NotFound) ends
\* the invocation with an error, unless it is a create or a
\* delete-resource-by-name of a teardown; in particular a failed inspect of
\* a network or of the prior container is not taken for an absent one.
C18_ErrorsAbort ==
    [][faults' > faults =>
          \A p \in Procs :
              proc'[p] # proc[p] =>
                  \/ proc'[p].pc = "done" /\ IsErr(proc'[p].err)
                  \/ MaySurvive(p)]_vars

(***************************************************************************)
(* Properties of the dependency scheduler.                                  *)
(***************************************************************************)
\* p has ended a pass of ServiceSetup in which it could run no service
Stuck(p) ==
    /\ proc[p].pc = "ServiceSetup"
    /\ proc[p].iter = {} /\ proc[p].notRun # {}
    /\ proc[p].notRun = proc[p].services

Scheduling(p) ==
    /\ Running(p) /\ proc[p].pc # "done"
    /\ proc[p].phases[Len(proc[p].phases)] = 3

\* ServiceSetup has returned nil to p's Run
Scheduled(p) ==
    /\ Running(p)
    /\ Succeeded(p) \/ \E k \in DOMAIN proc[p].phases : proc[p].phases[k] > 3

\* the services for which ServiceSetup has called SetupService, in the order
\* of the calls: those that returned, then the one in progress
Invoked(p) ==
    proc[p].ranServices \o (IF proc[p].cur = "" THEN <<>> ELSE <<proc[p].cur>>)

NoRepeat(seq) == \A j, k \in DOMAIN seq : j # k => seq[j] # seq[k]

\* C20: for a manifest that the validator accepts, if every engine and
\* agent call returns, the scheduler terminates, calls the service
\* reconciler for no service twice and, when it returns without error, has
\* called it once for every service key, whatever the iteration order.
C20_SchedulerTotal ==
    /\ [](\A p \in Procs :
            /\ Scheduling(p) => NoRepeat(Invoked(p))
            /\ Scheduled(p) =>
                  /\ NoRepeat(proc[p].ranServices)
                  /\ Range(proc[p].ranServices) = DOMAIN Services)
    /\ \A p \in Procs : Scheduling(p) ~> ~Scheduling(p)

\* ServiceSetup has returned after three passes over three services that
\* depend on one another in a chain
C20_Witness ==
    \E p \in Procs :
        /\ Scheduled(p) /\ Len(proc[p].ranServices) = 3
        /\ \E a, b, c \in DOMAIN Services :
              /\ a \in Deps(b) /\ b \in Deps(c)
              /\ proc[p].ranServices = <<a, b, c>>

(***************************************************************************)
(* Properties of main, of the naming functions and of the validator.        *)
(***************************************************************************)
\* C21: when the environment lacks AGENT_ENDPOINT or TOKEN (no agent client
\* could be built) the process stops before it issues an engine call, and
\* it completes no setup.
C21_EnvRequired ==
    ~comm => \A p \in Procs :
                /\ proc[p].calls = {}
                /\ ~(Running(p) /\ Succeeded(p))

\* the group names and the resource names of the non-runner services
GroupNames == UNION {Range(Services[s].network_groups) : s \in DOMAIN Services}
ResourceNetNames ==
    UNION {Range(Services[s].resources) :
              s \in {t \in DOMAIN Services : ~IsRunnerRole(Services[t])}}

\* C22: in a setup whose manifest passed validation, two different declared
\* volume names have different engine volume names, and the network name of
\* a group differs from the network name of every resource and from the
\* default network name of the job.
C22_NamesCollisionFree ==
    \A p \in Procs :
        Validated(p) =>
            /\ \A v, w \in DeclaredVolumeSet(metadata.volumes).set :
                  v # w => DockerVolumeName(Job, v) # DockerVolumeName(Job, w)
            /\ \A g \in GroupNames :
                  /\ \A r \in ResourceNetNames :
                        DockerNetworkName(Job, g) # DockerNetworkResourceName(Job, r)
                  /\ DockerNetworkName(Job, g) # Job

\* the volume half of C22 alone
C22_VolumeNamesDistinct ==
    \A p \in Procs :
        Validated(p) =>
            \A v, w \in DeclaredVolumeSet(metadata.volumes).set :
                v # w => DockerVolumeName(Job, v) # DockerVolumeName(Job, w)

\* the network half of C22 alone
C22_NetworkNamesDistinct ==
    \A p \in Procs :
        Validated(p) =>
            \A g \in GroupNames, r \in ResourceNetNames :
                DockerNetworkName(Job, g) # DockerNetworkResourceName(Job, r)

\* path runs along depends_on edges of the manifest and ends where it began
RealCycle(path) ==
    /\ Len(path) >= 2
    /\ path[1] = path[Len(path)]
    /\ \A i \in 1..Len(path) - 1 :
          path[i] \in DOMAIN Services /\ path[i + 1] \in Deps(path[i])

\* C23: the path that CheckCircularDependencies reports is a cycle of the
\* manifest: it ends in the service it begins with, and every service on it
\* lists the next one in its depends_on.
C23_ReportedCycleReal ==
    \A p \in Procs :
        (Running(p) /\ proc[p].err.kind = "CycleDetected") => RealCycle(proc[p].err.at)

\* what does hold of the reported path: it ends in the service it begins
\* with, and the service at which the back-edge was found is on a cycle
C23_ReportedNodeOnCycle ==
    \A p \in Procs :
        (Running(p) /\ proc[p].err.kind = "CycleDetected") =>
            LET path == proc[p].err.at
            IN /\ Len(path) >= 2 /\ path[1] = path[Len(path)]
               /\ \E i \in DOMAIN path : path[i] \in DependsOn(Services, path[i])

\* sub occurs in text
Contains(text, sub) ==
    \E i \in 1..Len(text) - Len(sub) + 1 : SubSeq(text, i, i + Len(sub) - 1) = sub

\* the manifest of the services a and b that depend on each other
TwoCycle ==
    DOMAIN Services = {"a", "b"} /\ Deps("a") = {"b"} /\ Deps("b") = {"a"}

\* C24: for the manifest of a (depends_on b) and b (depends_on a) the text
\* of the validator's error contains "a" -> "b" -> "a", whatever the order
\* in which the range over the services yields them.
C24_CycleTextStable ==
    \A p \in Procs :
        (Running(p) /\ proc[p].pc = "done" /\ TwoCycle) =>
            /\ proc[p].err.kind = "CycleDetected"
            /\ Contains(CycleText(proc[p].err.at, 1), "\"a\" -> \"b\" -> \"a\"")

\* what does hold for that manifest: the text names the cycle from a or
\* from b, according to the service the range yields first
C24_CycleTextEither ==
    \A p \in Procs :
        (Running(p) /\ proc[p].pc = "done" /\ TwoCycle) =>
            /\ proc[p].err.kind = "CycleDetected"
            /\ proc[p].calls = {}
            /\ \/ Contains(CycleText(proc[p].err.at, 1), "\"a\" -> \"b\" -> \"a\"")
               \/ CycleText(proc[p].err.at, 1)
                     = "circular dependency detected: \"b\" -> \"a\" -> \"b\""

\* C25: once validation of a setup has returned, it has returned the cycle
\* error exactly when the depends_on graph of the manifest has a cycle (a
\* self-dependency included); a manifest without a cycle is not rejected for
\* one, whether or not services share dependencies.
\* The same holds of the function on every part of the manifest's services,
\* where dependencies on services outside the part are skipped.
C25_CycleIffRejected ==
    \A p \in Procs :
        /\ (Running(p) /\ proc[p].pc # "CheckMetadata") =>
              (proc[p].err.kind = "CycleDetected" <=> HasCycle(Services))
        /\ (Running(p) /\ proc[p].pc = "CheckMetadata") =>
              \A S \in SUBSET DOMAIN Services :
                  LET part == [k \in S |-> Services[k]]
                  IN \A order \in SetToSeqs(S) :
                        IsErr(CheckCircularDependencies(part, order)) <=> HasCycle(part)

\* validation has accepted a manifest in which two services depend on a
\* third and one of the two on the other
C25_Witness ==
    \E p \in Procs :
        /\ Validated(p) /\ ~HasCycle(Services)
        /\ \E a, b, c \in DOMAIN Services :
              /\ a # b /\ b # c /\ a # c
              /\ a \in Deps(b) /\ Deps(c) = {a, b}

\* metadata.volumes holds an empty name, a blank one or a name twice
BadVolumes == IsErr(DeclaredVolumeSet(metadata.volumes).err)

\* p's setup has not gone past validation, has made no engine object and has
\* issued no VolumeCreate, and if it has ended it has ended in an error
Rejected(p) ==
    /\ ~Validated(p)
    /\ proc[p].made = {}
    /\ "VolumeCreate" \notin proc[p].calls
    /\ proc[p].pc = "done" => IsErr(proc[p].err)

\* C26: a setup of a manifest whose metadata.volumes holds an empty or blank
\* name or a duplicate is rejected in validation, before any engine object is
\* made and without a VolumeCreate, whether the manifest has services or not.
C26_BadVolumesRejected ==
    \A p \in Procs : (Running(p) /\ BadVolumes) => Rejected(p)

\* what does hold: such a manifest is rejected when it declares a service
C26_BadVolumesRejectedWithServices ==
    \A p \in Procs : (Running(p) /\ BadVolumes /\ DOMAIN Services # {}) => Rejected(p)

(***************************************************************************)
(* Properties of VolumeSetup.                                               *)
(***************************************************************************)
\* The calls of log from the j-th on are those of the loop of VolumeSetup
\* from the k-th declared volume on: for each volume an inspect of its
\* engine name; after a NotFound one create of that name with the labels
\* job, run and volume; after a create that failed a second inspect; nothing
\* after an inspect that failed or a second inspect that did not find the
\* volume.  The answer tells where the loop is after the calls: at which
\* volume, at which call, and with which error if it has returned one.
RECURSIVE VolumeRun(_, _, _, _)
VolumeRun(run, log, j, k) ==
    LET Bad == [ok |-> FALSE, k |-> k, pc |-> "", err |-> NoErr]
        At(pc) == [ok |-> TRUE, k |-> k, pc |-> pc, err |-> NoErr]
        Ended(last, op, name) ==
            [ok |-> last = Len(log), k |-> k, pc |-> "done",
             err |-> Err("VolumeOperationFailed", <<op, name>>)]
    IN IF j > Len(log) THEN At("VolumeSetup")
       ELSE IF k > Len(metadata.volumes) THEN Bad
       ELSE LET v == metadata.volumes[k]
                N == DockerVolumeName(Job, v)
                IsInspect(e) == e.call = "VolumeInspect" /\ e.name = N
            IN IF ~IsInspect(log[j]) THEN Bad
               ELSE IF log[j].result = "present" THEN VolumeRun(run, log, j + 1, k + 1)
               ELSE IF log[j].result = "error" THEN Ended(j, "inspect", N)
               ELSE IF j + 1 > Len(log) THEN At("VolumeCreate")
               ELSE IF ~/\ log[j + 1].call = "VolumeCreate"
                        /\ log[j + 1].name = N
                        /\ log[j + 1].labels = [job |-> Job, run |-> run, volume |-> v]
               THEN Bad
               ELSE IF log[j + 1].result = "ok" THEN VolumeRun(run, log, j + 2, k + 1)
               ELSE IF j + 2 > Len(log) THEN At("VolumeReinspect")
               ELSE IF ~IsInspect(log[j + 2]) THEN Bad
               ELSE IF log[j + 2].result = "present"
               THEN VolumeRun(run, log, j + 3, k + 1)
               ELSE Ended(j + 2, "create", N)

\* p's setup is in VolumeSetup, or has returned from it with an error
InVolumeSetup(p) ==
    /\ Running(p) /\ Len(proc[p].phases) > 0
    /\ proc[p].phases[Len(proc[p].phases)] = 2

\* C27: the engine calls of VolumeSetup are, for each declared volume in list
\* order, an inspect of its engine name, then only after NotFound one create
\* with the labels job, run and volume, then only after a failed create a
\* second inspect.  An inspect that fails, and a second inspect that does not
\* find the volume, end the loop with the inspect error and the creation
\* error; the loop returns without error only when every volume was found or
\* created.
C27_VolumeSetupProtocol ==
    \A p \in Procs :
        Running(p) =>
            LET r == VolumeRun(proc[p].run, proc[p].volumeCalls, 1, 1)
            IN /\ r.ok
               /\ InVolumeSetup(p) =>
                     /\ proc[p].pc = r.pc
                     /\ proc[p].err = r.err
                     /\ proc[p].pc # "done" => proc[p].i = r.k
               /\ (Validated(p) /\ ~InVolumeSetup(p)) =>
                     /\ r.pc = "VolumeSetup"
                     /\ r.k = Len(metadata.volumes) + 1

\* a process has returned from VolumeSetup without error after it found one
\* volume present at the first inspect and another one, whose create failed,
\* at the second
C27_Witness ==
    \E p \in Procs :
        /\ Validated(p) /\ ~InVolumeSetup(p)
        /\ \E j \in DOMAIN proc[p].volumeCalls :
              /\ proc[p].volumeCalls[j].call = "VolumeCreate"
              /\ proc[p].volumeCalls[j].result = "error"
        /\ proc[p].volumeCalls[1].result = "present"

(***************************************************************************)
(* Properties of the networks of SetupService.                              *)
(***************************************************************************)
\* the j-th network call of p found or made the network for an
\* ensure-network block
Ensured(p, j) ==
    LET e == proc[p].networkCalls[j]
    IN /\ e.ensure
       /\ \/ e.call = "NetworkInspect" /\ e.result = "present"
          \/ e.call = "NetworkCreate" /\ e.result = "ok"

\* createdNetworks holds the names that an inspect of this run found or a
\* create of this run made, and each name was given to NetworkCreate once
\* at most
CreatedNetworksTrue(p) ==
    LET log == proc[p].networkCalls
    IN /\ proc[p].createdNetworks = {log[j].name : j \in {i \in DOMAIN log : Ensured(p, i)}}
       /\ \A j, k \in DOMAIN log :
             (log[j].call = "NetworkCreate" /\ log[k].call = "NetworkCreate"
                 /\ log[j].name = log[k].name) => j = k

\* within an invocation createdNetworks loses no name
CreatedNetworksGrow ==
    \A p \in Procs :
        (Running(p) /\ proc'[p].inv = proc[p].inv) =>
            proc[p].createdNetworks \subseteq proc'[p].createdNetworks

Reconciles == {c \in containers : c.job = Job}

\* the service asks for no network: it has no network group, no Platform
\* connection and, unless it is a runner, no resource
AsksNoNetwork(svc) ==
    /\ Len(svc.network_groups) = 0
    /\ \A k \in DOMAIN svc.connections : ~GetPlatformData(svc.connections[k])
    /\ IsRunnerRole(svc) \/ Len(svc.resources) = 0

ResourceNets(s) ==
    {DockerNetworkResourceName(Job, Services[s].resources[k]) :
        k \in DOMAIN Services[s].resources}

\* p is about to create, or has just created, the container of its service
AtContainer(p) == Running(p) /\ proc[p].pc \in {"ContainerCreate", "ContainerStart"}

\* C30: when the container of a service that is not a runner is created, the
\* network <job>-<name>-resource of each of its resources exists in the
\* engine and the container is attached to it, and every CreateResource sent
\* for the service carries that network as platform_connection; for a runner
\* the container is attached to no per-resource network of its resources,
\* the run makes no per-resource network for them, and every CreateResource
\* sent carries no platform_connection.  A setup that succeeds with an agent
\* client has sent a CreateResource for every resource of every service.
C30_ResourceNetworks ==
    /\ \A p \in Procs :
          AtContainer(p) =>
              IF IsRunnerRole(Service(p))
              THEN ResourceNets(proc[p].cur) \cap proc[p].networks = {}
              ELSE /\ ResourceNets(proc[p].cur) \subseteq NetworkNames
                   /\ ResourceNets(proc[p].cur) \subseteq proc[p].networks
    /\ \A c \in Reconciles :
          IF IsRunnerRole(Services[c.service])
          THEN ResourceNets(c.service) \cap c.networks = {}
          ELSE ResourceNets(c.service) \subseteq c.networks
    /\ \A p \in Procs :
          Running(p) =>
              /\ \A j \in DOMAIN proc[p].published :
                    LET e == proc[p].published[j]
                    IN e.network = IF IsRunnerRole(Services[e.service]) THEN ""
                                   ELSE DockerNetworkResourceName(Job, e.name)
              /\ \A n \in networks :
                    (n.kind = "resource" /\ <<"network", n.name>> \in proc[p].made) =>
                        \E s \in DOMAIN Services :
                            ~IsRunnerRole(Services[s]) /\ n.name \in ResourceNets(s)
              /\ (Succeeded(p) /\ comm) => \A s \in DOMAIN Services : Published(p, s)

\* a setup has succeeded in which a runner and a service that is not a
\* runner have each published a resource
C30_Witness ==
    \E p \in Procs :
        /\ Running(p) /\ Succeeded(p)
        /\ \E j, k \in DOMAIN proc[p].published :
              /\ IsRunnerRole(Services[proc[p].published[j].service])
              /\ ~IsRunnerRole(Services[proc[p].published[k].service])
              /\ <<"network", proc[p].published[k].network>> \in proc[p].made

(***************************************************************************)
(* Properties of the container of SetupService.                             *)
(***************************************************************************)
\* the names of the resources the service declares now, as a non-runner
DeclaredNow(p) ==
    IF IsRunnerRole(Service(p)) THEN {} ELSE Range(Service(p).resources)

\* C31: when a reconcile has inspected and removed the container of its
\* service, the container it creates carries as resources label exactly the
\* non-empty names of the old label, none for a malformed one, together with
\* the names the service declares now as a non-runner; the label is absent
\* ({}) when there are none
C31_ResourcesLabel ==
    [][\A p \in Procs :
          (/\ proc[p].pc = "ContainerCreate" /\ proc'[p].pc = "ContainerStart"
           /\ proc[p].prior # <<>>)
          => \E c \in containers' \ containers :
                /\ c.name = ContainerName(p)
                /\ c.resources =
                      (IF proc[p].prior[1] = Malformed THEN {}
                       ELSE {n \in proc[p].prior[1] : n # ""}) \cup DeclaredNow(p)]_vars

\* a container was replaced whose old label held the empty name or was
\* malformed, and the new container stands
C31_Witness ==
    \E p \in Procs :
       /\ proc[p].pc = "ContainerStart"
       /\ proc[p].prior \in {<<Malformed>>, <<{"", "old"}>>}
       /\ proc[p].cur \in proc[p].removed
       /\ proc[p].cur \in proc[p].created

\* the runner services whose container this invocation started and whose
\* reconcile has returned with success, with RunnerExited, with a wait error
\* or with an error of the log stream after the wait
ReturnedRunners(p) ==
    {s \in proc[p].started :
        /\ IsRunnerRole(Services[s])
        /\ \/ s # proc[p].cur
           \/ /\ proc[p].pc = "done"
              /\ \/ proc[p].err = NoErr
                 \/ proc[p].err = Err("RunnerExited", <<DockerServiceName(Job, s)>>)
                 \/ proc[p].err = Err("ContainerOperationFailed",
                                      <<"wait", DockerServiceName(Job, s)>>)
                 \/ /\ proc[p].err = Err("LogStreamFailed", <<DockerServiceName(Job, s)>>)
                    /\ \E code \in ExitCodes : <<s, code>> \in proc[p].exited}

\* C32: whenever the reconcile of a runner returns after its container was
\* started, with success, with RunnerExited, with a wait error or with a
\* log-stream error, the engine no longer holds the runner's container
C32_RunnerRemoved ==
    \A p \in Procs :
       \A s \in ReturnedRunners(p) : ByName(DockerServiceName(Job, s)) = {}

\* the part of C32 the code keeps: after success and after RunnerExited the
\* runner's container is gone
C32_RemovedAfterExit ==
    \A p \in Procs :
       \A s \in ReturnedRunners(p) :
          (proc[p].err = NoErr \/ proc[p].err.kind = "RunnerExited")
          => ByName(DockerServiceName(Job, s)) = {}

(***************************************************************************)
(* Properties of the runner wait: the main task and the log task.           *)
(***************************************************************************)
\* the main task is between the spawn of the log task and the receive
InWait(p) == proc[p].pc \in {"ContainerWait", "logDone"}

\* the log task has not yet delivered its result
LogTaskLive(p) == proc[p].demux = "reading"

\* the followed stream of the runner's container has ended or was closed
StreamOver(p) ==
    \/ proc[p].rc = "closed"
    \/ \A c \in ByID(proc[p].containerID) : c.status # "running"

\* no task of the runner wait waits for the other without end
WaitSafe ==
    \A p \in Procs :
       \* the single send finds room in the buffer
       /\ LogTaskLive(p) => Len(proc[p].logDoneCh) < logDoneCap
       \* a main task that waits at the receive has a value to take, or a
       \* log task whose stream is over and that is about to send one
       /\ (proc[p].pc = "logDone" /\ proc[p].logDoneCh = <<>>)
             => LogTaskLive(p) /\ StreamOver(p)
       \* the main task leaves the wait before the log task delivered only
       \* with the wait error, and then the stream is closed
       /\ (LogTaskLive(p) /\ ~InWait(p))
             => /\ proc[p].pc = "done"
                /\ proc[p].err = Err("ContainerOperationFailed",
                                     <<"wait", ContainerName(p)>>)
                /\ proc[p].rc = "closed"

\* C33: the main task and the log task do not deadlock: the send on logDone
\* never waits, the receive waits only for a log task that can move, the
\* main task does not go on before the log task delivered its result unless
\* the wait failed, and every log task ends
C33_RunnerWait ==
    /\ []WaitSafe
    /\ \A p \in Procs : (proc[p].demux = "reading") ~> (proc[p].demux = "ended")

\* the main task returned on a wait error while the log task was still
\* reading, and the log task has sent its result with no receiver and ended
C33_Witness ==
    \E p \in Procs :
       /\ proc[p].pc = "done"
       /\ proc[p].err.kind = "ContainerOperationFailed"
       /\ proc[p].err.at[1] = "wait"
       /\ proc[p].demux = "ended"
       /\ proc[p].logDoneCh = <<"error">>

(***************************************************************************)
(* Properties of SetupConnections.                                          *)
(***************************************************************************)
\* the invocation of p has entered SetupConnections
PlanRan(p) == 6 \in Range(proc[p].phases)

\* the position of the first create entry whose ResourceRef has no id, one
\* past the list when there is none
FirstUnresolvable ==
    LET create == metadata.connections.create
        bad == {k \in DOMAIN create : create[k].resource.id = ""}
    IN IF bad = {} THEN Len(create) + 1
       ELSE CHOOSE k \in bad : \A j \in bad : k <= j

\* C34: the calls of the plan begin with one POST per create entry, in list
\* order, each with the resource id, the job and the metadata of its entry,
\* and no DELETE comes before the last of them; a create entry without id
\* gets no POST, ends the plan with UnresolvableResourceRef and lets no later
\* entry be processed; the connections posted before it stay
C34_CreatesInOrder ==
    \A p \in Procs :
       LET create == metadata.connections.create
           calls == proc[p].connCalls
           stop == FirstUnresolvable
       IN /\ Len(calls) < IF stop <= Len(create) THEN stop ELSE Len(calls) + 1
          /\ \A k \in DOMAIN calls :
                /\ IF k <= Len(create)
                   THEN calls[k] = <<"POST", create[k].resource.id, create[k].job,
                                     create[k].metadata>>
                   ELSE calls[k][1] = "DELETE"
                /\ k <= Len(create) => <<create[k].resource.id, "new">> \in agentConns
          /\ (PlanRan(p) /\ proc[p].pc = "done" /\ Len(calls) = stop - 1
                /\ stop <= Len(create))
                => proc[p].err = Err("UnresolvableResourceRef", <<>>)

\* a plan has posted its first connection and has ended at its second
\* entry, which has no id, with the third never posted
C34_Witness ==
    \E p \in Procs :
       /\ Len(metadata.connections.create) = 3
       /\ FirstUnresolvable = 2
       /\ proc[p].pc = "done"
       /\ proc[p].err.kind = "UnresolvableResourceRef"
       /\ proc[p].connCalls = <<<<"POST", "x1", Job, "{}">>>>
       /\ <<"x1", "new">> \in agentConns

\* the calls of the plan after its creates are one DELETE per entry of
\* remove, in list order, each for the resource id and the connection id of
\* its entry; the plan ends without error only after the last of them, and
\* at an entry with an id and no resource, or with a resource and no id, it
\* ends with the error of that case
RemovesHandled(p, remove) ==
    LET calls == proc[p].connCalls
        n == Len(metadata.connections.create)
        dels == IF Len(calls) > n THEN SubSeq(calls, n + 1, Len(calls)) ELSE <<>>
        ended == PlanRan(p) /\ proc[p].pc = "done"
    IN /\ Len(dels) <= Len(remove)
       /\ \A k \in DOMAIN dels :
             /\ remove[k].id # "" /\ remove[k].hasResource /\ remove[k].resource.id # ""
             /\ dels[k] = <<"DELETE", remove[k].resource.id, remove[k].id>>
       /\ (ended /\ ~IsErr(proc[p].err)) => Len(dels) = Len(remove)
       /\ (ended /\ Len(calls) >= n /\ Len(dels) < Len(remove)) =>
             LET spec == remove[Len(dels) + 1]
             IN /\ IsErr(proc[p].err)
                /\ (spec.id # "" /\ ~spec.hasResource)
                      => proc[p].err = Err("ResourceRefRequiredForDelete", <<spec.id>>)
                /\ (spec.id = "" /\ spec.hasResource)
                      => proc[p].err = Err("BulkConnectionRemovalUnsupported", <<>>)

\* C35: every remove entry of the plan gets exactly one DELETE for its
\* resource id and its connection id, or ends the plan with an error; an
\* entry with an id and no resource fails ResourceRefRequiredForDelete, one
\* with only a resource BulkConnectionRemovalUnsupported, neither gets a
\* DELETE, no later entry is processed, and no entry is passed over
C35_RemovesHandled ==
    \A p \in Procs : RemovesHandled(p, metadata.connections.remove)

\* the part of C35 the code keeps: the same of the remove entries that have
\* an id or a resource
C35_RemovesHandledBarEmpty ==
    \A p \in Procs :
       RemovesHandled(p, SelectSeq(metadata.connections.remove,
                                   LAMBDA e : e.id # "" \/ e.hasResource))

(***************************************************************************)
(* Properties of the removal of containers by teardown and RemoveServices.  *)
(***************************************************************************)
\* the resource names that the labels of the containers list which the
\* invocation of p has removed in teardown or in RemoveServices
GoneNames(p) ==
    UNION {IF c.resources = Malformed THEN {} ELSE c.resources \ {""} :
              c \in proc[p].gone}

\* C36: when teardown or RemoveServices has returned, without an error or
\* with the error of a ContainerRemove that failed, a delete-resource-by-name
\* has been issued for every resource name that the label of a container it
\* removed lists
C36_DeletedBeforeReturn ==
    \A p \in Procs :
       (/\ proc[p].pc = "done"
        /\ \/ ~IsErr(proc[p].err)
           \/ /\ proc[p].err.kind = "ContainerOperationFailed"
              /\ proc[p].err.at[1] = "remove")
       => GoneNames(p) \subseteq proc[p].deleted

\* the part of C36 the code keeps: the same when the operation returns
\* without an error
C36_DeletedOnSuccess ==
    \A p \in Procs :
       (proc[p].pc = "done" /\ ~IsErr(proc[p].err))
       => GoneNames(p) \subseteq proc[p].deleted

(***************************************************************************)
(* Properties of the checks of SetupService before the container.           *)
(***************************************************************************)
\* the service cannot be reconciled: a Platform connection of it names no
\* network or a network the engine does not hold, a mount_path of it is
\* empty, or a binding with both ports has a host_ip that does not parse
Unfit(service) ==
    \/ \E k \in DOMAIN service.connections :
          /\ GetPlatformData(service.connections[k])
          /\ service.connections[k].network \notin NetworkNames
    \/ \E k \in DOMAIN service.volumes : TrimSpace(service.volumes[k].mount_path) = ""
    \/ \E k \in DOMAIN service.bindings :
          /\ service.bindings[k].container_port # <<>>
          /\ service.bindings[k].host_port # <<>>
          /\ service.bindings[k].host_ip # <<>>
          /\ ~ParseAddr(service.bindings[k].host_ip[1], 1, 0, 0, 0)

\* the invocation of p has issued no ContainerStop, ContainerRemove or
\* ContainerCreate in the reconcile of its current service
Untouched(p) == proc[p].cur \notin proc[p].stopped \cup proc[p].removed \cup proc[p].created

\* C37: a reconcile that fails on a Platform connection, on an empty
\* mount_path or on a host_ip leaves the containers as they were when it
\* began: none stopped, none removed, none created; and the reconcile of a
\* service with such a fault never changes a container
C37_ContainersUntouched ==
    /\ [](\A p \in Procs :
            /\ (/\ proc[p].pc = "done"
                /\ proc[p].err.kind \in {"PlatformConnectionInvalid",
                                          "PlatformNetworkMissing",
                                          "MountPathInvalid", "InvalidHostIP"}
                /\ proc[p].cur # "")
                  => Untouched(p)
            /\ (proc[p].cur \in DOMAIN Services /\ Unfit(Services[proc[p].cur]))
                  => Untouched(p))
    /\ [][\A p \in Procs :
            (proc[p].cur \in DOMAIN Services /\ proc'[p].cur = proc[p].cur
             /\ Unfit(Services[proc[p].cur]))
            => containers' = containers]_vars

\* a reconcile has failed on a host_ip while the engine holds a running
\* container of the service from an earlier run
C37_Witness ==
    \E p \in Procs :
       /\ proc[p].pc = "done"
       /\ proc[p].err.kind = "InvalidHostIP"
       /\ \E c \in ByName(ContainerName(p)) : c.status = "running" /\ c.run = "r0"

\* the same for a Platform connection without a network
C37_WitnessInvalid ==
    \E p \in Procs :
       /\ proc[p].pc = "done"
       /\ proc[p].err.kind = "PlatformConnectionInvalid"
       /\ \E c \in ByName(ContainerName(p)) : c.status = "running" /\ c.run = "r0"

\* the same for a Platform connection whose network the engine does not hold
C37_WitnessMissing ==
    \E p \in Procs :
       /\ proc[p].pc = "done"
       /\ proc[p].err.kind = "PlatformNetworkMissing"
       /\ \E c \in ByName(ContainerName(p)) : c.status = "running" /\ c.run = "r0"

\* C38: the exposed ports of a container are the container ports of the
\* bindings of its service, as tcp and as udp, with the number the manifest
\* gives, and every host binding is for one of these ports
C38_PortsAsDeclared ==
    \A c \in {x \in containers : x.run # "r0" /\ x.service \in DOMAIN Services} :
       LET declared == {b.container_port[1] :
                          b \in {x \in Range(Services[c.service].bindings) :
                                    x.container_port # <<>>}}
       IN /\ c.exposed = {<<n, t>> : n \in declared, t \in {"tcp", "udp"}}
          /\ \A m \in c.portMap : m.port[1] \in declared

\* the part of C38 the code keeps: the same of the container ports that are
\* between 0 and 65535
C38_PortsInRange ==
    \A c \in {x \in containers : x.run # "r0" /\ x.service \in DOMAIN Services} :
       LET declared == {b.container_port[1] :
                          b \in {x \in Range(Services[c.service].bindings) :
                                    x.container_port # <<>>}}
       IN (declared \subseteq 0..65535)
          => /\ c.exposed = {<<n, t>> : n \in declared, t \in {"tcp", "udp"}}
             /\ \A m \in c.portMap : m.port[1] \in declared

(***************************************************************************)
(* Properties of RemoveServices.                                            *)
(***************************************************************************)
\* the container names of the keys that remove_services lists
Listed == {DockerServiceName(Job, k) : k \in Range(metadata.remove_services)}

\* RemoveServices was called in the invocation of p and has returned without
\* an error
RemoveServicesDone(p) ==
    /\ 4 \in Range(proc[p].phases)
    /\ \/ Phase(proc[p].pc) \in {5, 6}
       \/ proc[p].pc = "done" /\ ~IsErr(proc[p].err)

\* what RemoveServices leaves when it has returned without an error: no
\* container of a listed key, the other containers as they were, and a
\* delete-resource-by-name issued for every name in the label of a listed
\* container
RemoveServicesEffect(p) ==
    /\ \A n \in Listed : ByName(n) = {}
    /\ GoneNames(p) \subseteq proc[p].deleted

\* a step of RemoveServices leaves the containers of the keys that are not
\* listed as they are
RemoveServicesFrame ==
    \A p \in Procs :
       Phase(proc[p].pc) = 4
       => {c \in containers' : c.name \notin Listed}
             = {c \in containers : c.name \notin Listed}

\* C39: when RemoveServices has returned without an error, every listed key
\* that had a container has none, also a key that services lists as well, a
\* delete-resource-by-name was issued for every name in the labels of these
\* containers, and the containers of the other services are as they were
C39_RemoveServices ==
    /\ [](\A p \in Procs : RemoveServicesDone(p) => RemoveServicesEffect(p))
    /\ [][RemoveServicesFrame]_vars

\* the part of C39 the code keeps: the same when no engine or agent call of
\* the invocation failed for a reason other than the state of the engine
C39_RemoveServicesNoFailure ==
    /\ [](\A p \in Procs :
            (RemoveServicesDone(p) /\ faults = proc[p].prevFaults)
            => RemoveServicesEffect(p))
    /\ [][RemoveServicesFrame]_vars

====
